---- MODULE Spec2Model ----
(***************************************************************************)
(* ChatCode: the server, of which the repository holds two copies (the hub  *)
(* server/socket.js with the routes server/routes/room.js, and the hub and *)
(* routes kept in unnamed/part_005), and the client's join orchestrator    *)
(* (src/hooks/useRoomAccess.tsx over src/services/WebSocketService.ts).    *)
(***************************************************************************)
EXTENDS Integers, Sequences, FiniteSets, TLC

VARIABLES
  hub,          \* which copy of the server runs: "socket_js" (with routes/room.js)
                \* or "part_005" (hub and routes of that file)
  sockState,    \* per socket id: "new" (not yet connected), "open", "closed"
  ioRooms,      \* per socket: the socket.io rooms it is subscribed to (socket.join / socket.leave)
  pc,           \* per socket: where its suspended joinRoom handler stands
  activeUsers,  \* the hub's Map roomId -> array of {id, socketId}
  participants, \* the store's Room.participants, per room (a list of user ids)
  sharedWith,   \* the store's Room.sharedWith, per room (a set of user ids)
  emitted,      \* the socket events delivered by the last hub step
  httpResp,     \* the response of the last HTTP request the server answered
  conns,        \* history: the connections registered in a room and not yet unregistered
  \* the client of one browser tab (useRoomAccess over WebSocketService)
  wsSocket,          \* WebSocketService.socket: "-" (null) or the id of its socket
  connecting,        \* WebSocketService.connecting
  joinedRooms,       \* WebSocketService.joinedRooms
  wire,              \* joinRoom events emitted on the socket and not yet handled by the hub
  loading,           \* useRoomAccess: the loading state
  joinInProgress,    \* useRoomAccess: the joinInProgress state
  closureInProgress, \* the joinInProgress value captured by the joinRoom callback in use
  attempt,           \* the join attempt that holds the current AbortController
  staleListeners,    \* once('connect') listeners left by attempts that were aborted
  joinAttemptTimeout,\* the deadline timer (joinAttemptTimeout.current)
  backoff,           \* the pending retry timer (setTimeout(..., 500))
  connectionAttempts,\* connectionAttemptsRef.current
  calls,             \* how many times the user has called joinRoom
  joinEmits,         \* history: how many joinRoom events the client has emitted
  enrolled,          \* history: the client's POST /:id/join added the user as participant
  clientOut,         \* what the last client step did: requests, emits, callbacks
  \* the hub's debounced document save (saveCodeToDatabase)
  saveTimeouts,      \* the Map roomId -> handle of the save timer (0: no entry)
  saveTimers,        \* the save timers that are armed: their handle, age and captured arguments
  saveWriting,       \* timer callbacks suspended in the store write (await Room.findByIdAndUpdate)
  storedDoc,         \* the store's Room.code and Room.language, per room
  lastChange,        \* history: the content of the last codeChange event, per room
  quiet,             \* history: clock ticks since the last codeChange event, per room
  writesSince,       \* history: writes issued since the last codeChange event, per room
  changes,           \* how many codeChange events the hub has handled
  docOut,            \* the store write issued by the last hub step
  \* the peer connection orchestrator of two browser tabs (VideoChat.tsx)
  idText,            \* the text of each socket id and user id, as code units
  mounted,           \* per tab: "none", "media" (localStream set), "ready" (handlers registered)
  peerConnections,   \* per tab: the peerConnections state, key -> link (0: no entry)
  pcView,            \* per tab: the peerConnections captured by the registered handlers
  rtc,               \* the RTCPeerConnection objects, by link number
  iceCandidatesBuffer, \* per tab: the iceCandidatesBuffer state, key -> array (0: no entry)
  bufView,           \* per tab: the iceCandidatesBuffer captured by the registered handlers
  arrays,            \* the candidate arrays the buffers point to, by array number
  connectionStatus,  \* per tab: the connectionStatus state, key -> status
  statusView,        \* per tab: the connectionStatus captured by the registered handlers
  attemptsRef,       \* per tab: connectionAttempts.current, key -> count
  vTimers,           \* the timers armed by the tabs
  retryWire,         \* connectionRetry events relayed by the hub and not yet handled
  sinceRetry,        \* history: clock ticks since the tab's last retryConnection toward a key
  arrivals,          \* history: what a tab received from a sender, in arrival order: the
                     \* candidates, numbered from 1, and 0 for an offer or an answer
  draining,          \* per tab: the offer or answer handler suspended in its replay loop
  vOut,              \* what the last orchestrator step did: the handler and its emits
  \* the hub's chat, cursor and signaling handlers
  relayed,           \* history: the last signal the hub relayed, and the sockets it reached
  received,          \* history: how many codeChange and sendMessage events the hub has received
  msgSaving,         \* sendMessage handlers suspended in a store call (await)
  messages,          \* the store's Message collection: the numbers of the saved messages
  published,         \* history: per room, the events broadcast to it, by reception number
  failures           \* history: the store calls that failed, and who had sent the event

clientVars == <<wsSocket, connecting, joinedRooms, wire, loading, joinInProgress,
                closureInProgress, attempt, staleListeners, joinAttemptTimeout, backoff,
                connectionAttempts, calls, joinEmits, enrolled, clientOut>>

docVars == <<saveTimeouts, saveTimers, saveWriting, storedDoc, lastChange, quiet, writesSince,
             changes, docOut>>

videoVars == <<idText, mounted, peerConnections, pcView, rtc, iceCandidatesBuffer, bufView, arrays,
               connectionStatus, statusView, attemptsRef, vTimers, retryWire, sinceRetry,
               arrivals, draining, vOut>>

chatVars == <<relayed, received, msgSaving, messages, published, failures>>

\* What lies outside the hub's rooms and the join orchestrator.
extraVars == <<docVars, videoVars, chatVars>>

hubVars == <<hub, sockState, ioRooms, pc, activeUsers, participants, sharedWith, emitted, httpResp, conns>>

----------------------------------------------------------------------------
(* The universe of the model. *)

Sockets == {"s1", "s2", "s3"}
GateSockets == {"s1", "s2"}
Users == {"U1", "U2"}
Rooms == {"R1"}
HubVersions == {"socket_js", "part_005"}

NoUser == "-"
NoPassword == ""
Passwords == {"p1", "wrong"}

\* Who sits behind each browser tab: U2 has two tabs.
SocketUser(s) == CASE s = "s1" -> "U1" [] s = "s2" -> "U2" [] OTHER -> "U2"

\* Room metadata held by the store (created by POST /rooms).
Owner(r) == "U1"
Password(r) == IF r = "R1" THEN "p1" ELSE NoPassword
IsPrivate(r) == r = "R1"

----------------------------------------------------------------------------
(* Helpers over JavaScript Maps and arrays. *)

MapSet(m, k, v) == [x \in DOMAIN m \cup {k} |-> IF x = k THEN v ELSE m[x]]
MapDelete(m, k) == [x \in DOMAIN m \ {k} |-> m[x]]
Range(list) == {list[i] : i \in 1..Len(list)}

\* for (const user of list) uniqueUsers.set(user.id, user); Array.from(values()):
\* a key keeps the position of its first insertion and the value of its last.
UniqueById(list) ==
  LET F[i \in 0..Len(list)] ==
        IF i = 0 THEN <<>>
        ELSE LET prev == F[i - 1]
                 e == list[i]
             IN IF \E j \in 1..Len(prev) : prev[j].id = e.id
                THEN [j \in 1..Len(prev) |-> IF prev[j].id = e.id THEN e ELSE prev[j]]
                ELSE Append(prev, e)
  IN F[Len(list)]

getUniqueActiveUsers(au, r) == IF r \notin DOMAIN au THEN <<>> ELSE UniqueById(au[r])

ViewUsers(au, r) == {e.id : e \in Range(getUniqueActiveUsers(au, r))}

----------------------------------------------------------------------------
(* Event delivery.  io.to(x) addresses every connected socket subscribed   *)
(* to the socket.io room x; each socket is also subscribed to the room     *)
(* named by its own id.                                                    *)

\* One delivery: event ev reaches socket `to`; room is the room it concerns, about the
\* user (or sending socket) it names, arg a further payload field, n the length of the
\* user list it carries.
Ev(ev, to, room, about, arg, n) ==
  [ev |-> ev, to |-> to, room |-> room, about |-> about, arg |-> arg, n |-> n]

Subscribers(st, rooms, x) == {t \in Sockets : st[t] = "open" /\ (x = t \/ x \in rooms[t])}

IoTo(st, rooms, x, ev, about, arg, n) ==
  {Ev(ev, t, x, about, arg, n) : t \in Subscribers(st, rooms, x)}

SocketTo(st, rooms, s, x, ev, about, arg, n) ==
  {Ev(ev, t, x, about, arg, n) : t \in Subscribers(st, rooms, x) \ {s}}

SocketEmit(st, s, r, ev, about, arg, n) ==
  IF st[s] = "open" THEN {Ev(ev, s, r, about, arg, n)} ELSE {}

updateParticipantCount(st, rooms, au, r) ==
  LET uniqueUsers == getUniqueActiveUsers(au, r)
  IN IoTo(st, rooms, r, "participantCountUpdate", NoUser, "-", Len(uniqueUsers))
     \cup (IF hub = "part_005"
           THEN IoTo(st, rooms, r, "activeUsers", NoUser, "-", Len(uniqueUsers))
           ELSE {})

----------------------------------------------------------------------------
(* The hub.                                                                *)

NoResp == [route |-> "-", user |-> NoUser, room |-> "-", pw |-> "", status |-> 0, msg |-> "-"]

\* The client modelled: one tab of U2, whose socket is s2, joining R1.
ClientSocket == "s2"
ClientUser == "U2"
ClientRoom == "R1"
NoSocket == "-"

NoAttempt == [stage |-> "none", room |-> "-", pw |-> NoPassword]
NoTimer == [armed |-> FALSE, room |-> "-", pw |-> NoPassword]
Armed(r, pw) == [armed |-> TRUE, room |-> r, pw |-> pw]
NoOut == [step |-> "-", fetch |-> "-", aborted |-> FALSE, emit |-> 0, onSuccess |-> 0,
          onError |-> "-"]

\* The client before its first joinRoom call.
InitClient ==
  /\ connecting = FALSE
  /\ joinedRooms = {}
  /\ wire = {}
  /\ loading = FALSE
  /\ joinInProgress = FALSE
  /\ closureInProgress = FALSE
  /\ attempt = NoAttempt
  /\ staleListeners = 0
  /\ joinAttemptTimeout = NoTimer
  /\ backoff = NoTimer
  /\ connectionAttempts = 0
  /\ calls = 0
  /\ joinEmits = 0
  /\ enrolled = FALSE
  /\ clientOut = NoOut

NoHandle == 0
NoDoc == [code |-> "", language |-> "js"]
NoWrite == [room |-> "-", code |-> "-", language |-> "-"]

\* The debounce before the first codeChange event: `let saveTimeouts = new Map()`.
InitDoc ==
  /\ saveTimeouts = [r \in Rooms |-> NoHandle]
  /\ saveTimers = {}
  /\ saveWriting = {}
  /\ storedDoc = [r \in Rooms |-> NoDoc]
  /\ lastChange = [r \in Rooms |-> NoDoc]
  /\ quiet = [r \in Rooms |-> 0]
  /\ writesSince = [r \in Rooms |-> 0]
  /\ changes = 0
  /\ docOut = NoWrite

\* The two tabs that run the orchestrator, named by their sockets, and the ids they
\* use as keys: the socket id of a relayed sender, the user id of a presence entry.
VClients == {"s1", "s2"}
VideoIds == {"s1", "s2", "U1", "U2"}
OtherClient(c) == IF c = "s1" THEN "s2" ELSE "s1"
\* The tab a key stands for.
Holder(k) == IF k \in {"s1", "U1"} THEN "s1" ELSE "s2"

\* Socket ids are drawn from letters and digits in both cases, user ids are
\* hexadecimal: "5K", "K5", "cK" and "5c", "c5" as UTF-16 code units.
SocketTexts == {<<53, 75>>, <<75, 53>>, <<99, 75>>}
UserTexts == {<<53, 99>>, <<99, 53>>}
\* The two tabs are interchangeable: s1 names the one whose socket id is the smaller.
IdTexts ==
  {f \in [VideoIds -> SocketTexts \cup UserTexts] :
     /\ f["s1"] \in SocketTexts /\ f["s2"] \in SocketTexts
     /\ \/ f["s1"][1] < f["s2"][1]
        \/ f["s1"][1] = f["s2"][1] /\ f["s1"][2] < f["s2"][2]
     /\ f["U1"] \in UserTexts /\ f["U2"] \in UserTexts /\ f["U1"] # f["U2"]}

MaxLinks == 2
MaxArrays == 3
MaxCandidates == 3
MaxDescriptions == 2
\* The spacing between two retryConnection events, in ticks, that the model tells apart.
MinSpacing == 1
LinkIds == 1..MaxLinks
ArrayIds == 1..MaxArrays
NoLink == 0
NoArray == 0
NoRtc == [owner |-> "-", key |-> "-", open |-> FALSE, remote |-> FALSE, offered |-> FALSE,
          seen |-> "-", added |-> <<>>]
NoDrain == [kind |-> "-", key |-> "-", link |-> 0, array |-> 0, next |-> 0,
            buf |-> [k \in VideoIds |-> 0]]
NoStep == [step |-> "-", by |-> "-", key |-> "-", emits |-> {}]
EmptyMap == [k \in VideoIds |-> 0]
NoStatus == [k \in VideoIds |-> "-"]

\* The orchestrators before the tabs have their media.
InitVideo ==
  /\ mounted = [c \in VClients |-> "none"]
  /\ peerConnections = [c \in VClients |-> EmptyMap]
  /\ pcView = [c \in VClients |-> EmptyMap]
  /\ rtc = [l \in LinkIds |-> NoRtc]
  /\ iceCandidatesBuffer = [c \in VClients |-> EmptyMap]
  /\ bufView = [c \in VClients |-> EmptyMap]
  /\ arrays = [a \in ArrayIds |-> <<>>]
  /\ connectionStatus = [c \in VClients |-> NoStatus]
  /\ statusView = [c \in VClients |-> NoStatus]
  /\ attemptsRef = [c \in VClients |-> EmptyMap]
  /\ vTimers = {}
  /\ retryWire = {}
  /\ sinceRetry = [c \in VClients |-> [k \in VideoIds |-> MinSpacing]]
  /\ arrivals = [c \in VClients |-> [k \in VideoIds |-> <<>>]]
  /\ draining = [c \in VClients |-> NoDrain]
  /\ vOut = NoStep

\* Outside the video specifications no tab mounts the orchestrator; the id texts
\* play no part there.
SomeIdText ==
  [k \in VideoIds |-> CASE k = "s1" -> <<53, 75>> [] k = "s2" -> <<75, 53>>
                        [] k = "U1" -> <<53, 99>> [] OTHER -> <<99, 53>>]

VideoOff ==
  /\ InitVideo
  /\ idText = SomeIdText

NoSignal == [kind |-> "-", sender |-> "-", claimed |-> "-", target |-> "-", targetState |-> "-",
             to |-> {}]

\* The chat before the hub has handled its first event.
InitChat ==
  /\ relayed = NoSignal
  /\ received = 0
  /\ msgSaving = {}
  /\ messages = {}
  /\ published = [r \in Rooms |-> <<>>]
  /\ failures = {}

InitExtra == InitDoc /\ VideoOff /\ InitChat

\* The participant lists a room can hold when the hub starts: the owner, put there by
\* POST /rooms, and whoever joined over POST /:id/join before.
StoredParticipants == {<<"U1">>, <<"U1", "U2">>}

Idle == [st |-> "idle", room |-> "-", user |-> NoUser]

Init ==
  /\ hub \in HubVersions
  /\ sockState = [s \in Sockets |-> "new"]
  /\ ioRooms = [s \in Sockets |-> {}]
  /\ pc = [s \in Sockets |-> Idle]
  /\ activeUsers = <<>>
  /\ participants \in [Rooms -> StoredParticipants]
  /\ emitted = {}
  /\ sharedWith \in [Rooms -> SUBSET {"U2"}]
  /\ httpResp = NoResp
  /\ conns = {}
  /\ wsSocket = NoSocket
  /\ InitClient
  /\ InitExtra

\* io.on('connection')
Connect(s) ==
  /\ sockState[s] = "new"
  /\ sockState' = [sockState EXCEPT ![s] = "open"]
  /\ emitted' = {}
  /\ httpResp' = NoResp
  /\ UNCHANGED <<hub, ioRooms, pc, activeUsers, participants, sharedWith, conns>>

----------------------------------------------------------------------------
(* joinRoom.  The handler is async: it is suspended on User.findById and   *)
(* Room.findById (pc "findRoom"), in part_005 on room.save() (pc "save"),  *)
(* and on Room.findByIdAndUpdate (pc "update"); the reads that follow      *)
(* change nothing and are folded into the last step.                       *)

\* socket.js 59-71: the access check of a room with a password.
HubAuthorizedSocketJs(r, u, parts, shared) ==
  \/ Password(r) = NoPassword
  \/ Owner(r) = u
  \/ u \in shared

\* part_005 97-120: the access check of a private room with a password.
HubAuthorizedPart005(r, u, parts, shared) ==
  \/ ~(Password(r) # NoPassword /\ IsPrivate(r))
  \/ Owner(r) = u
  \/ u \in shared
  \/ u \in Range(parts)

HubAuthorized(r, u, parts, shared) ==
  IF hub = "socket_js" THEN HubAuthorizedSocketJs(r, u, parts, shared)
  ELSE HubAuthorizedPart005(r, u, parts, shared)

\* The presence update with an entry the user already has left in place.
RegisterEntryFirstWins(au, s, r, u) ==
  IF r \in DOMAIN au /\ \E i \in 1..Len(au[r]) : au[r][i].id = u
  THEN au
  ELSE MapSet(au, r, Append(IF r \in DOMAIN au THEN au[r] ELSE <<>>,
                            [id |-> u, socketId |-> s]))

\* The presence update of joinRoom: drop every entry of this user, push the new one.
RegisterEntry(au, s, r, u) ==
  LET base == IF r \notin DOMAIN au
              THEN <<>>
              ELSE SelectSeq(au[r], LAMBDA e : e.id # u)
  IN MapSet(au, r, Append(base, [id |-> u, socketId |-> s]))

\* The socket.io subscription made by the first statement of joinRoom.
JoinSubscription(rooms, s, r) == [rooms EXCEPT ![s] = @ \cup {r}]

JoinRoomStart(s, r, u) ==
  /\ sockState[s] = "open"
  /\ pc[s].st = "idle"
  /\ IF hub = "part_005" /\ u = NoUser
     THEN /\ emitted' = SocketEmit(sockState, s, r, "error", NoUser, "Invalid room or user data", 0)
          /\ UNCHANGED <<ioRooms, pc>>
     ELSE /\ ioRooms' = JoinSubscription(ioRooms, s, r)
          /\ pc' = [pc EXCEPT ![s] = [st |-> IF u = NoUser THEN "roomData" ELSE "findRoom",
                                      room |-> r, user |-> u]]
          /\ emitted' = {}
  /\ httpResp' = NoResp
  /\ UNCHANGED <<hub, sockState, activeUsers, participants, sharedWith, conns>>

\* The registration itself (socket.js 73-107, part_005 140-174), up to the next await.
Registration(s, r, u) ==
  /\ activeUsers' = RegisterEntry(activeUsers, s, r, u)
  /\ emitted' = IoTo(sockState, ioRooms, r, "userJoined", u, s,
                     Len(getUniqueActiveUsers(activeUsers', r)))
  /\ conns' = IF sockState[s] = "open" /\ r \in ioRooms[s]
              THEN conns \cup {[s |-> s, r |-> r, u |-> u]}
              ELSE conns
  /\ pc' = [pc EXCEPT ![s].st = "update"]

\* The access check that takes the share list from an earlier read of the room,
\* made before the owner shared it, and the participants from the present one.
JoinRoomCheckTwoReads(s) ==
  LET r == pc[s].room
      u == pc[s].user
  IN /\ pc[s].st = "findRoom"
     /\ IF ~HubAuthorized(r, u, participants[r], {})
        THEN /\ emitted' = SocketEmit(sockState, s, r, "error", NoUser,
                                      "This room requires a password to join", 0)
             /\ pc' = [pc EXCEPT ![s] = Idle]
             /\ UNCHANGED <<activeUsers, conns>>
        ELSE IF hub = "part_005" /\ u \notin Range(participants[r])
        THEN /\ pc' = [pc EXCEPT ![s].st = "save"]
             /\ emitted' = {}
             /\ UNCHANGED <<activeUsers, conns>>
        ELSE Registration(s, r, u)
     /\ httpResp' = NoResp
     /\ UNCHANGED <<hub, sockState, ioRooms, participants, sharedWith>>

\* Room.findById has answered: the access check, then the registration
\* (part_005 first saves a new participant).
JoinRoomCheck(s) ==
  LET r == pc[s].room
      u == pc[s].user
  IN /\ pc[s].st = "findRoom"
     /\ IF ~HubAuthorized(r, u, participants[r], sharedWith[r])
        THEN /\ emitted' = SocketEmit(sockState, s, r, "error", NoUser,
                                      "This room requires a password to join", 0)
             /\ pc' = [pc EXCEPT ![s] = Idle]
             /\ UNCHANGED <<activeUsers, conns>>
        ELSE IF hub = "part_005" /\ u \notin Range(participants[r])
        THEN /\ pc' = [pc EXCEPT ![s].st = "save"]
             /\ emitted' = {}
             /\ UNCHANGED <<activeUsers, conns>>
        ELSE Registration(s, r, u)
     /\ httpResp' = NoResp
     /\ UNCHANGED <<hub, sockState, ioRooms, participants, sharedWith>>

\* part_005 131-138: room.participants.push(...); await room.save() has completed.
JoinRoomSaved(s) ==
  LET r == pc[s].room
      u == pc[s].user
  IN /\ pc[s].st = "save"
     /\ participants' = [participants EXCEPT ![r] = Append(@, u)]
     /\ Registration(s, r, u)
     /\ httpResp' = NoResp
     /\ UNCHANGED <<hub, sockState, ioRooms, sharedWith>>

\* $addToSet: { participants: { user: userId } }
AddToSet(list, u) == IF u \in Range(list) THEN list ELSE Append(list, u)

\* The rest of the handler: the store update, the count broadcast, then
\* roomData, previousMessages and activeUsers to the joining socket.
JoinRoomTail(s) ==
  LET r == pc[s].room
      u == pc[s].user
      registered == pc[s].st = "update"
      n == Len(getUniqueActiveUsers(activeUsers, r))
      count == updateParticipantCount(sockState, ioRooms, activeUsers, r)
      toSelf == SocketEmit(sockState, s, r, "roomData", NoUser, r, 0)
                \cup SocketEmit(sockState, s, r, "previousMessages", NoUser, r, 0)
  IN /\ pc[s].st \in {"update", "roomData"}
     /\ participants' = IF registered /\ hub = "socket_js"
                        THEN [participants EXCEPT ![r] = AddToSet(@, u)]
                        ELSE participants
     /\ emitted' =
          IF hub = "socket_js"
          THEN count \cup toSelf \cup SocketEmit(sockState, s, r, "activeUsers", NoUser, "-", n)
          ELSE (IF registered
                THEN count \cup SocketTo(sockState, ioRooms, s, r, "newPeer", u, s, 0)
                ELSE {})
               \cup toSelf
               \* part_005 213 reads uniqueActiveUsers outside the block that declares it
               \cup SocketEmit(sockState, s, r, "error", NoUser, "Failed to join room", 0)
     /\ pc' = [pc EXCEPT ![s] = Idle]
     /\ httpResp' = NoResp
     /\ UNCHANGED <<hub, sockState, ioRooms, activeUsers, sharedWith, conns>>

----------------------------------------------------------------------------
(* leaveRoom and disconnect.                                               *)

LeaveSubscription(rooms, s, r) == [rooms EXCEPT ![s] = @ \ {r}]

\* leaveRoom with a filter on the user id alone: every connection of the user goes.
LeaveRoomOfUser(s, r, u) ==
  /\ sockState[s] = "open"
  /\ ioRooms' = LeaveSubscription(ioRooms, s, r)
  /\ conns' = {c \in conns : ~(c.s = s /\ c.r = r)}
  /\ IF u # NoUser /\ r \in DOMAIN activeUsers
     THEN LET updatedUsers == SelectSeq(activeUsers[r], LAMBDA e : ~(e.id = u))
          IN /\ activeUsers' = IF Len(updatedUsers) > 0
                               THEN MapSet(activeUsers, r, updatedUsers)
                               ELSE MapDelete(activeUsers, r)
             /\ emitted' = IoTo(sockState, ioRooms', r, "userLeft", u, s,
                                Len(getUniqueActiveUsers(activeUsers', r)))
                           \cup updateParticipantCount(sockState, ioRooms', activeUsers', r)
     ELSE /\ emitted' = {}
          /\ UNCHANGED activeUsers
  /\ httpResp' = NoResp
  /\ UNCHANGED <<hub, sockState, pc, participants, sharedWith>>

LeaveRoom(s, r, u) ==
  /\ sockState[s] = "open"
  /\ ioRooms' = LeaveSubscription(ioRooms, s, r)
  /\ conns' = {c \in conns : ~(c.s = s /\ c.r = r)}
  /\ IF u # NoUser /\ r \in DOMAIN activeUsers
     THEN LET updatedUsers == SelectSeq(activeUsers[r],
                                     LAMBDA e : ~(e.id = u /\ e.socketId = s))
          IN /\ activeUsers' = IF Len(updatedUsers) > 0
                               THEN MapSet(activeUsers, r, updatedUsers)
                               ELSE MapDelete(activeUsers, r)
             /\ emitted' = IoTo(sockState, ioRooms', r, "userLeft", u, s,
                                Len(getUniqueActiveUsers(activeUsers', r)))
                           \cup updateParticipantCount(sockState, ioRooms', activeUsers', r)
     ELSE /\ emitted' = {}
          /\ UNCHANGED activeUsers
  /\ httpResp' = NoResp
  /\ UNCHANGED <<hub, sockState, pc, participants, sharedWith>>

\* users.find(user => user.socketId === socket.id)
FindBySocket(users, s) ==
  IF \E i \in 1..Len(users) : users[i].socketId = s
  THEN users[CHOOSE i \in 1..Len(users) :
               /\ users[i].socketId = s
               /\ \A j \in 1..(i - 1) : users[j].socketId # s]
  ELSE [id |-> NoUser, socketId |-> "-"]

\* What the disconnect loop leaves of one room's array (<<>>: the key is deleted).
DisconnectUpdated(users, s) == SelectSeq(users, LAMBDA e : e.socketId # s)

\* Whether the disconnect loop touches room r at all.
DisconnectTouches(au, r, s) ==
  IF hub = "socket_js" THEN TRUE ELSE FindBySocket(au[r], s).id # NoUser

DisconnectMap(au, s) ==
  LET kept == {r \in DOMAIN au :
                 ~DisconnectTouches(au, r, s) \/ Len(DisconnectUpdated(au[r], s)) > 0}
  IN [r \in kept |-> IF DisconnectTouches(au, r, s) THEN DisconnectUpdated(au[r], s) ELSE au[r]]

\* socket.js 252-276: userLeft whenever an entry of this socket was found and others remain.
DisconnectEmitsSocketJs(st, rooms, au, au2, r, s) ==
  LET disconnectedUser == FindBySocket(au[r], s)
  IN IF r \in DOMAIN au2 /\ disconnectedUser.id # NoUser
     THEN IoTo(st, rooms, r, "userLeft", disconnectedUser.id, s,
               Len(getUniqueActiveUsers(au2, r)))
          \cup updateParticipantCount(st, rooms, au2, r)
     ELSE {}

\* part_005 365-397: userLeft only when the user is no longer in the de-duplicated view.
DisconnectEmitsPart005(st, rooms, au, au2, r, s) ==
  LET disconnectedUser == FindBySocket(au[r], s)
      userStillActive == disconnectedUser.id \in ViewUsers(au2, r)
  IN IF r \in DOMAIN au2 /\ disconnectedUser.id # NoUser
     THEN (IF ~userStillActive
           THEN IoTo(st, rooms, r, "userLeft", disconnectedUser.id, s,
                     Len(getUniqueActiveUsers(au2, r)))
           ELSE {})
          \cup updateParticipantCount(st, rooms, au2, r)
     ELSE {}

DisconnectEmits(st, rooms, au, au2, r, s) ==
  IF hub = "socket_js" THEN DisconnectEmitsSocketJs(st, rooms, au, au2, r, s)
  ELSE DisconnectEmitsPart005(st, rooms, au, au2, r, s)

Disconnect(s) ==
  /\ sockState[s] = "open"
  /\ sockState' = [sockState EXCEPT ![s] = "closed"]
  /\ ioRooms' = [ioRooms EXCEPT ![s] = {}]
  /\ conns' = {c \in conns : c.s # s}
  /\ activeUsers' = DisconnectMap(activeUsers, s)
  /\ emitted' = UNION {DisconnectEmits(sockState', ioRooms', activeUsers, activeUsers', r, s) :
                         r \in DOMAIN activeUsers}
  /\ httpResp' = NoResp
  /\ UNCHANGED <<hub, pc, participants, sharedWith>>

----------------------------------------------------------------------------
(* The signaling relay (part_005 only; socket.js registers no handler for  *)
(* these events).                                                          *)

SignalKinds == {"offer", "answer", "iceCandidate", "retryConnection"}

\* The event name under which a relayed signal is delivered.
RelayedAs(kind) == IF kind = "retryConnection" THEN "connectionRetry" ELSE kind

\* io.to(data.target).emit(kind, {...data, sender: socket.id})
RelayTargets(st, rooms, target) == Subscribers(st, rooms, target)

\* The `sender` field a client may have put into the payload itself: none, or the id
\* of socket s1 (its own id when s1 sends, another connection's id otherwise).
PayloadSenders == {NoSocket, "s1"}

\* `{sender: socket.id, ...data}`: a sender in the payload survives.
SenderFieldOfPayload(claimed, s) == IF claimed = NoSocket THEN s ELSE claimed

\* `{...data, sender: socket.id}` and `{sender: socket.id, roomId}`: the sender field
\* of the relayed payload is the id of the socket the event arrived on.
SenderField(claimed, s) == s

\* The relay with a report to the sender when the target is not reached.
RelayBouncing(s, kind, target, r, claimed) ==
  /\ hub = "part_005"
  /\ sockState[s] = "open"
  /\ emitted' = IF RelayTargets(sockState, ioRooms, target) = {}
                THEN SocketEmit(sockState, s, r, "error", NoUser, "Target not connected", 0)
                ELSE {Ev(RelayedAs(kind), t, r, SenderField(claimed, s), target, 0) :
                        t \in RelayTargets(sockState, ioRooms, target)}
  /\ relayed' = [kind |-> kind, sender |-> s, claimed |-> claimed, target |-> target,
                 targetState |-> IF target \in Sockets THEN sockState[target] ELSE "-",
                 to |-> {e.to : e \in emitted'}]
  /\ httpResp' = NoResp
  /\ UNCHANGED <<hub, sockState, ioRooms, pc, activeUsers, participants, sharedWith, conns>>
  /\ UNCHANGED <<received, msgSaving, messages, published, failures>>

Relay(s, kind, target, r, claimed) ==
  /\ hub = "part_005"
  /\ sockState[s] = "open"
  /\ emitted' = {Ev(RelayedAs(kind), t, r, SenderField(claimed, s), target, 0) :
                   t \in RelayTargets(sockState, ioRooms, target)}
  /\ relayed' = [kind |-> kind, sender |-> s, claimed |-> claimed, target |-> target,
                 targetState |-> IF target \in Sockets THEN sockState[target] ELSE "-",
                 to |-> {e.to : e \in emitted'}]
  /\ httpResp' = NoResp
  /\ UNCHANGED <<hub, sockState, ioRooms, pc, activeUsers, participants, sharedWith, conns>>
  /\ UNCHANGED <<received, msgSaving, messages, published, failures>>

----------------------------------------------------------------------------
(* The HTTP routes of server/routes/room.js.                               *)

\* One HTTP exchange: the request (route, authenticated user, room, password in the
\* body) and the status and message of its response.
Resp(route, u, r, pw, status, msg) ==
  [route |-> route, user |-> u, room |-> r, pw |-> pw, status |-> status, msg |-> msg]

\* routes/room.js 140-154: the password check of POST /:id/join.
JoinRouteResultRoomJs(r, u, pw, shared) ==
  IF Password(r) # NoPassword
  THEN IF pw = NoPassword THEN Resp("join", u, r, pw, 401, "Password is required")
       ELSE IF pw # Password(r) THEN Resp("join", u, r, pw, 401, "Invalid room password")
       ELSE Resp("join", u, r, pw, 200, "Joined room successfully")
  ELSE Resp("join", u, r, pw, 200, "Joined room successfully")

\* part_005 569-591: the same check in the copy of the routes kept with that hub.
JoinRouteResultPart005(r, u, pw, shared) ==
  IF IsPrivate(r)
  THEN IF Owner(r) # u /\ u \notin shared /\ (pw = NoPassword \/ pw # Password(r))
       THEN Resp("join", u, r, pw, 401, "Invalid room password")
       ELSE Resp("join", u, r, pw, 200, "Joined room successfully")
  ELSE IF Password(r) # NoPassword /\ (pw = NoPassword \/ pw # Password(r))
  THEN Resp("join", u, r, pw, 401, "Invalid room password")
  ELSE Resp("join", u, r, pw, 200, "Joined room successfully")

JoinRouteResult(r, u, pw, shared) ==
  IF hub = "socket_js" THEN JoinRouteResultRoomJs(r, u, pw, shared)
  ELSE JoinRouteResultPart005(r, u, pw, shared)

\* POST /:id/join, routes/room.js 156-169 and part_005 593-606: add the user as
\* participant if not already.
JoinRouteParticipants(list, u, status) ==
  IF status = 200 /\ u \notin Range(list) THEN Append(list, u) ELSE list

\* routes/room.js 93-116: GET /:id.
GetRoomResultRoomJs(r, u, parts, shared) ==
  IF Password(r) # NoPassword
  THEN Resp("get", u, r, NoPassword, 403, "passwordRequired")
  ELSE IF IsPrivate(r) /\ ~(Owner(r) = u \/ u \in shared \/ u \in Range(parts))
  THEN Resp("get", u, r, NoPassword, 403, "You do not have access to this room")
  ELSE Resp("get", u, r, NoPassword, 200, "room")

\* part_005 532-549: GET /:id in the copy of the routes kept with that hub.
GetRoomResultPart005(r, u, parts, shared) ==
  IF IsPrivate(r) /\ Owner(r) # u /\ u \notin shared
  THEN IF Password(r) # NoPassword
       THEN Resp("get", u, r, NoPassword, 403, "passwordRequired")
       ELSE Resp("get", u, r, NoPassword, 403, "You do not have access to this room")
  ELSE Resp("get", u, r, NoPassword, 200, "room")

GetRoomResult(r, u, parts, shared) ==
  IF hub = "socket_js" THEN GetRoomResultRoomJs(r, u, parts, shared)
  ELSE GetRoomResultPart005(r, u, parts, shared)

HttpJoin(u, r, pw) ==
  /\ httpResp' = JoinRouteResult(r, u, pw, sharedWith[r])
  /\ participants' = [participants EXCEPT ![r] = JoinRouteParticipants(@, u, httpResp'.status)]
  /\ emitted' = {}
  /\ UNCHANGED <<hub, sockState, ioRooms, pc, activeUsers, sharedWith, conns>>

\* POST /:id/share, 273-316: the owner adds users to the share list.
ShareRouteResult(r, u) ==
  IF Owner(r) # u THEN Resp("share", u, r, NoPassword, 403, "Only the room owner can share this room")
  ELSE Resp("share", u, r, NoPassword, 200, "Room shared")

HttpShare(u, r, userIds) ==
  /\ httpResp' = ShareRouteResult(r, u)
  /\ sharedWith' = [sharedWith EXCEPT ![r] = IF httpResp'.status = 200 THEN @ \cup userIds ELSE @]
  /\ emitted' = {}
  /\ UNCHANGED <<hub, sockState, ioRooms, pc, activeUsers, participants, conns>>

----------------------------------------------------------------------------
(* The client: the useRoomAccess hook over the WebSocketService singleton. *)
(* The user is logged in (token and user.id are set) for the whole run.    *)

\* How many times the user calls joinRoom in a run.
MaxCalls == 2

\* useRoomAccess.tsx:81, the retries allowed before the timeout is reported.
MaxRetries == 3

TimeoutMessage == "Join attempt timed out. Please try again."
PasswordRequiredMessage == "This room requires a password to join"

\* What client steps leave alone on the server.
HubQuiet ==
  /\ emitted' = {}
  /\ UNCHANGED <<hub, ioRooms, pc, activeUsers, sharedWith, conns>>

\* A step of the hub seen from the client: nothing but the step's output changes.
ClientQuiet ==
  /\ clientOut' = NoOut
  /\ UNCHANGED <<wsSocket, connecting, joinedRooms, loading, joinInProgress,
                 closureInProgress, attempt, staleListeners, joinAttemptTimeout, backoff,
                 connectionAttempts, calls, joinEmits, enrolled>>

\* abortControllerRef.current.abort(): a fetch in flight rejects with AbortError, which
\* the catch block drops; a once('connect') listener already registered stays registered.
AbortedListeners(att, stale) ==
  IF att.stage = "listening" THEN stale + 1 ELSE stale

\* useRoomAccess.tsx 61-138: past the guards, joinRoom clears the deadline timer, aborts
\* the previous controller, arms a new deadline and sends the access check.
StartAttempt(step, r, pw) ==
  /\ joinAttemptTimeout' = Armed(r, pw)
  /\ staleListeners' = AbortedListeners(attempt, staleListeners)
  /\ attempt' = [stage |-> "check", room |-> r, pw |-> pw]
  /\ loading' = TRUE
  /\ joinInProgress' = TRUE
  /\ clientOut' = [NoOut EXCEPT !.step = step, !.fetch = "get",
                                !.aborted = attempt.stage # "none"]
  /\ UNCHANGED <<wsSocket, connecting, joinedRooms, wire, connectionAttempts, joinEmits>>

\* useRoomAccess.tsx 44-59: a call by the user through the callback the component holds;
\* the guard reads the joinInProgress that this callback captured.
UserJoin(pw) ==
  /\ calls < MaxCalls
  /\ calls' = calls + 1
  /\ IF closureInProgress
     THEN /\ clientOut' = [NoOut EXCEPT !.step = "call"]
          /\ UNCHANGED <<wsSocket, connecting, joinedRooms, wire, loading, joinInProgress,
                         attempt, staleListeners, joinAttemptTimeout, connectionAttempts,
                         joinEmits>>
     ELSE StartAttempt("call", ClientRoom, pw)
  /\ UNCHANGED <<backoff, closureInProgress, enrolled>>
  /\ httpResp' = NoResp
  /\ HubQuiet
  /\ UNCHANGED <<sockState, participants>>

\* useRoomAccess.tsx 355: the callback is rebuilt only in a render in which one of
\* token, user, toast, onSuccess, onError changed; joinInProgress is not among them.
Rerender ==
  /\ closureInProgress # joinInProgress
  /\ closureInProgress' = joinInProgress
  /\ clientOut' = NoOut
  /\ UNCHANGED <<wsSocket, connecting, joinedRooms, wire, loading, joinInProgress, attempt,
                 staleListeners, joinAttemptTimeout, backoff, connectionAttempts, calls,
                 joinEmits, enrolled>>
  /\ httpResp' = NoResp
  /\ HubQuiet
  /\ UNCHANGED <<sockState, participants>>

\* The resets shared by every path on which a join call ends with a report.
FinishState ==
  /\ loading' = FALSE
  /\ joinInProgress' = FALSE
  /\ connectionAttempts' = 0
  /\ joinAttemptTimeout' = NoTimer

\* useRoomAccess.tsx 324-354 (and 212-233): the failure is reported once and the
\* hook is reset.
Fail(step, msg) ==
  /\ FinishState
  /\ attempt' = NoAttempt
  /\ clientOut' = [NoOut EXCEPT !.step = step, !.onError = msg]
  /\ UNCHANGED <<wsSocket, connecting, joinedRooms, wire, staleListeners, joinEmits>>

\* WebSocketService.ts 187-208 run by k callbacks in a row, each followed by the
\* hook's success path (useRoomAccess.tsx 154-172, 178-197, 267-285, 291-310): the
\* joinRoom event is emitted only for a room not yet in joinedRooms.
JoinedNow(step, r, k) ==
  /\ joinedRooms' = joinedRooms \cup {r}
  /\ wire' = IF r \in joinedRooms THEN wire ELSE wire \cup {[room |-> r, user |-> ClientUser]}
  /\ joinEmits' = IF r \in joinedRooms THEN joinEmits ELSE joinEmits + 1
  /\ FinishState
  /\ clientOut' = [NoOut EXCEPT !.step = step, !.onSuccess = k,
                                !.emit = IF r \in joinedRooms THEN 0 ELSE 1]

\* useRoomAccess.tsx 146-199 and 259-312 with WebSocketService.ts 242-248 and 29-95:
\* join at once over a connected socket, else start connecting and wait for 'connect'.
SocketPhase(step) ==
  IF wsSocket # NoSocket /\ sockState[wsSocket] = "open"
  THEN /\ JoinedNow(step, attempt.room, 1)
       /\ attempt' = NoAttempt
       /\ UNCHANGED <<wsSocket, connecting, staleListeners, sockState>>
  ELSE /\ wsSocket' = ClientSocket
       /\ connecting' = TRUE
       /\ attempt' = [attempt EXCEPT !.stage = "listening"]
       /\ clientOut' = [NoOut EXCEPT !.step = step]
       /\ UNCHANGED <<joinedRooms, wire, loading, joinInProgress, staleListeners,
                      joinAttemptTimeout, connectionAttempts, joinEmits, sockState>>

\* useRoomAccess.tsx 130-237 and 321-322: the answer of GET /:id reaches the attempt
\* that sent it.
CheckResponse ==
  /\ attempt.stage = "check"
  /\ LET res == GetRoomResult(attempt.room, ClientUser, participants[attempt.room],
                              sharedWith[attempt.room])
     IN /\ httpResp' = res
        /\ IF res.status = 200 THEN SocketPhase("checkResponse")
           ELSE /\ UNCHANGED sockState
                /\ IF res.msg = "passwordRequired" /\ attempt.pw = NoPassword
                   THEN Fail("checkResponse", PasswordRequiredMessage)
                   ELSE IF attempt.pw # NoPassword
                   THEN /\ attempt' = [attempt EXCEPT !.stage = "join"]
                        /\ clientOut' = [NoOut EXCEPT !.step = "checkResponse", !.fetch = "join"]
                        /\ UNCHANGED <<wsSocket, connecting, joinedRooms, wire, loading,
                                       joinInProgress, staleListeners, joinAttemptTimeout,
                                       connectionAttempts, joinEmits>>
                   ELSE Fail("checkResponse", res.msg)
  /\ HubQuiet
  /\ UNCHANGED <<participants, backoff, calls, closureInProgress, enrolled>>

\* useRoomAccess.tsx 239-319 with routes/room.js 124-184: the server handles
\* POST /:id/join and its answer reaches the attempt that sent it.
JoinResponse ==
  /\ attempt.stage = "join"
  /\ LET res == JoinRouteResult(attempt.room, ClientUser, attempt.pw, sharedWith[attempt.room])
     IN /\ httpResp' = res
        /\ participants' = [participants EXCEPT
                              ![attempt.room] = JoinRouteParticipants(@, ClientUser, res.status)]
        /\ enrolled' = (enrolled \/ JoinRouteParticipants(participants[attempt.room], ClientUser,
                                                          res.status) # participants[attempt.room])
        /\ IF res.status = 200 THEN SocketPhase("joinResponse")
           ELSE /\ Fail("joinResponse", res.msg)
                /\ UNCHANGED sockState
  /\ HubQuiet
  /\ UNCHANGED <<backoff, calls, closureInProgress>>

\* WebSocketService.ts 69-80 and the listeners of useRoomAccess.tsx 177-198, 290-311:
\* the socket connects and every once('connect') listener registered on it runs,
\* those of aborted attempts included.
SocketConnects ==
  /\ wsSocket # NoSocket
  /\ sockState[wsSocket] = "new"
  /\ sockState' = [sockState EXCEPT ![wsSocket] = "open"]
  /\ connecting' = FALSE
  /\ LET k == AbortedListeners(attempt, staleListeners)
     IN IF k = 0
        THEN /\ clientOut' = [NoOut EXCEPT !.step = "connect"]
             /\ UNCHANGED <<joinedRooms, wire, loading, joinInProgress, attempt,
                            staleListeners, joinAttemptTimeout, connectionAttempts, joinEmits>>
        ELSE /\ JoinedNow("connect", ClientRoom, k)
             /\ staleListeners' = 0
             /\ attempt' = IF attempt.stage = "listening" THEN NoAttempt ELSE attempt
  /\ httpResp' = NoResp
  /\ HubQuiet
  /\ UNCHANGED <<wsSocket, participants, backoff, calls, closureInProgress, enrolled>>

\* useRoomAccess.tsx 81: another retry is allowed.
MayRetry(n) == n < MaxRetries

\* The timeout reported with the attempt counter left as it was.
AttemptsAfterTimeoutKept(n) == n

\* useRoomAccess.tsx 105: the attempt counter after the timeout is reported.
AttemptsAfterTimeout(n) == 0

\* useRoomAccess.tsx 77-122: the deadline of the current attempt passes. The deadline
\* (8000 ms) is longer than the backoff (500 ms), so it never passes while a retry is
\* pending.
DeadlineFires ==
  /\ joinAttemptTimeout.armed
  /\ ~backoff.armed
  /\ joinAttemptTimeout' = NoTimer
  /\ staleListeners' = AbortedListeners(attempt, staleListeners)
  /\ attempt' = NoAttempt
  /\ joinInProgress' = FALSE
  /\ IF MayRetry(connectionAttempts)
     THEN /\ connectionAttempts' = connectionAttempts + 1
          /\ backoff' = joinAttemptTimeout
          /\ clientOut' = [NoOut EXCEPT !.step = "deadline", !.aborted = attempt.stage # "none"]
          /\ UNCHANGED loading
     ELSE /\ connectionAttempts' = AttemptsAfterTimeout(connectionAttempts)
          /\ loading' = FALSE
          /\ clientOut' = [NoOut EXCEPT !.step = "deadline", !.aborted = attempt.stage # "none",
                                        !.onError = TimeoutMessage]
          /\ UNCHANGED backoff
  /\ httpResp' = NoResp
  /\ HubQuiet
  /\ UNCHANGED <<wsSocket, connecting, joinedRooms, wire, joinEmits, calls, enrolled,
                 closureInProgress, sockState, participants>>

\* useRoomAccess.tsx 95-97: the backoff passes and the timer calls the joinRoom that
\* armed it, whose captured joinInProgress is false since that call passed the guard.
BackoffFires ==
  /\ backoff.armed
  /\ backoff' = NoTimer
  /\ StartAttempt("retry", backoff.room, backoff.pw)
  /\ httpResp' = NoResp
  /\ HubQuiet
  /\ UNCHANGED <<calls, closureInProgress, enrolled, sockState, participants>>

\* The hub receives a joinRoom event the client emitted.
HubReceivesJoin ==
  \E m \in wire :
    /\ JoinRoomStart(wsSocket, m.room, m.user)
    /\ wire' = wire \ {m}
    /\ ClientQuiet

----------------------------------------------------------------------------
(* The hub under arbitrary clients.                                        *)

vars == <<hubVars, clientVars, extraVars>>

Next ==
  \/ \E s \in Sockets : Connect(s) /\ UNCHANGED <<clientVars, extraVars>>
  \/ \E s \in Sockets, r \in Rooms : JoinRoomStart(s, r, SocketUser(s)) /\ UNCHANGED <<clientVars, extraVars>>
  \/ \E s \in Sockets : JoinRoomCheck(s) /\ UNCHANGED <<clientVars, extraVars>>
  \/ \E s \in Sockets : JoinRoomSaved(s) /\ UNCHANGED <<clientVars, extraVars>>
  \/ \E s \in Sockets : JoinRoomTail(s) /\ UNCHANGED <<clientVars, extraVars>>
  \/ \E s \in Sockets, r \in Rooms : \E u \in {SocketUser(s), NoUser} : LeaveRoom(s, r, u) /\ UNCHANGED <<clientVars, extraVars>>
  \/ \E s \in Sockets : Disconnect(s) /\ UNCHANGED <<clientVars, extraVars>>

Spec == Init /\ [][Next]_vars

\* The access gate: the join and share routes, and the hub's check of sockets that join.
NextGate ==
  \/ \E s \in GateSockets : Connect(s) /\ UNCHANGED <<clientVars, extraVars>>
  \/ \E s \in GateSockets, r \in Rooms : \E u \in {SocketUser(s), NoUser} : JoinRoomStart(s, r, u) /\ UNCHANGED <<clientVars, extraVars>>
  \/ \E s \in GateSockets : JoinRoomCheck(s) /\ UNCHANGED <<clientVars, extraVars>>
  \/ \E s \in GateSockets : JoinRoomSaved(s) /\ UNCHANGED <<clientVars, extraVars>>
  \/ \E s \in GateSockets : JoinRoomTail(s) /\ UNCHANGED <<clientVars, extraVars>>
  \/ \E u \in Users, r \in Rooms, pw \in Passwords \cup {NoPassword} : HttpJoin(u, r, pw) /\ UNCHANGED <<clientVars, extraVars>>
  \/ \E u \in Users, r \in Rooms : HttpShare(u, r, {"U2"}) /\ UNCHANGED <<clientVars, extraVars>>

SpecGate == Init /\ [][NextGate]_vars

\* The relay among connections that subscribe to rooms and come and go.
NextRelay ==
  \/ \E s \in Sockets : Connect(s) /\ UNCHANGED <<clientVars, extraVars>>
  \/ \E s \in Sockets, r \in Rooms : JoinRoomStart(s, r, SocketUser(s)) /\ UNCHANGED <<clientVars, extraVars>>
  \/ \E s \in Sockets : Disconnect(s) /\ UNCHANGED <<clientVars, extraVars>>
  \/ \E s \in Sockets, kind \in SignalKinds, target \in Sockets \cup Rooms, r \in Rooms :
        Relay(s, kind, target, r, NoSocket) /\ UNCHANGED <<clientVars, docVars, videoVars>>

SpecRelay == Init /\ [][NextRelay]_vars

\* The relay between two connections whose payloads may name a sender themselves.
NextSigned ==
  \/ \E s \in VClients : Connect(s) /\ UNCHANGED <<clientVars, extraVars>>
  \/ \E s \in VClients, r \in Rooms : JoinRoomStart(s, r, SocketUser(s)) /\ UNCHANGED <<clientVars, extraVars>>
  \/ \E s \in VClients : Disconnect(s) /\ UNCHANGED <<clientVars, extraVars>>
  \/ \E s \in VClients, kind \in SignalKinds, target \in VClients \cup Rooms, r \in Rooms :
        \E claimed \in PayloadSenders :
          Relay(s, kind, target, r, claimed) /\ UNCHANGED <<clientVars, docVars, videoVars>>

SpecSigned == Init /\ [][NextSigned]_vars

----------------------------------------------------------------------------
(* One tab of U2 joins R1 through the hook while U1 is present in the room. *)

InitJoin ==
  /\ hub \in HubVersions
  /\ sockState \in {[s \in Sockets |-> IF s = "s1" THEN "open" ELSE "new"],
                    [s \in Sockets |-> IF s = "s3" THEN "new" ELSE "open"]}
  /\ ioRooms = [s \in Sockets |-> IF s = "s1" THEN {ClientRoom} ELSE {}]
  /\ pc = [s \in Sockets |-> Idle]
  /\ activeUsers = MapSet(<<>>, ClientRoom, <<[id |-> "U1", socketId |-> "s1"]>>)
  /\ participants \in [Rooms -> StoredParticipants]
  /\ sharedWith \in [Rooms -> SUBSET {"U2"}]
  /\ emitted = {}
  /\ httpResp = NoResp
  /\ conns = {[s |-> "s1", r |-> ClientRoom, u |-> "U1"]}
  /\ wsSocket = IF sockState[ClientSocket] = "open" THEN ClientSocket ELSE NoSocket
  /\ InitClient
  /\ InitExtra

NextJoin ==
  \/ (\E pw \in Passwords \cup {NoPassword} : UserJoin(pw)) /\ UNCHANGED extraVars
  \/ Rerender /\ UNCHANGED extraVars
  \/ CheckResponse /\ UNCHANGED extraVars
  \/ JoinResponse /\ UNCHANGED extraVars
  \/ SocketConnects /\ UNCHANGED extraVars
  \/ DeadlineFires /\ UNCHANGED extraVars
  \/ BackoffFires /\ UNCHANGED extraVars
  \/ HubReceivesJoin /\ UNCHANGED extraVars
  \/ JoinRoomCheck(ClientSocket) /\ wire' = wire /\ ClientQuiet /\ UNCHANGED extraVars
  \/ JoinRoomSaved(ClientSocket) /\ wire' = wire /\ ClientQuiet /\ UNCHANGED extraVars
  \/ JoinRoomTail(ClientSocket) /\ wire' = wire /\ ClientQuiet /\ UNCHANGED extraVars

SpecJoin == InitJoin /\ [][NextJoin]_vars

\* Timers that are armed do fire: the browser's event loop runs them.
SpecJoinFair ==
  /\ SpecJoin
  /\ WF_vars(DeadlineFires /\ UNCHANGED extraVars)
  /\ WF_vars(BackoffFires /\ UNCHANGED extraVars)

----------------------------------------------------------------------------
(* Properties of the presence registry.                                    *)

\* C1: a user who joined a room over several connections stays in the room's
\* de-duplicated presence view as long as one of those connections is still
\* registered; the user leaves the view only with the last connection.
C1_PresentUntilLastConnection ==
  \A c \in conns : c.u \in ViewUsers(activeUsers, c.r)

\* C2: userLeft is broadcast to a room only by the unregistration that removes the
\* last remaining connection of that user in the room: the user had a registered
\* connection there before the step and has none after it.
C2_UserLeftOnlyOnLastConnection ==
  [][\A e \in emitted' :
       e.ev = "userLeft" =>
         /\ \E c \in conns : c.r = e.room /\ c.u = e.about
         /\ ~\E c \in conns' : c.r = e.room /\ c.u = e.about]_vars

RejectedMessage == "This room requires a password to join"

\* C3: a connection whose joinRoom is rejected by the hub's access check is not
\* subscribed to the room after the rejection, so it receives none of its broadcasts.
C3_RejectedNotSubscribed ==
  [][\A e \in emitted' :
       (e.ev = "error" /\ e.arg = RejectedMessage) => e.room \notin ioRooms'[e.to]]_vars

----------------------------------------------------------------------------
(* Properties of the access gate.                                          *)

\* The callers the gate is to admit without a password.
Privileged(r, u) ==
  Owner(r) = u \/ u \in sharedWith[r] \/ u \in Range(participants[r])

\* C4: for a password-protected room the owner, the share-list members and the
\* recorded participants are admitted whatever password they supply, by the join
\* route (status 200) and by the hub's joinRoom check (no rejection).
C4_PrivilegedBypassPassword ==
  [][/\ (/\ httpResp'.route = "join"
         /\ Password(httpResp'.room) # NoPassword
         /\ Privileged(httpResp'.room, httpResp'.user)) => httpResp'.status = 200
     /\ \A e \in emitted' :
          (e.ev = "error" /\ e.arg = RejectedMessage) => ~Privileged(e.room, pc[e.to].user)]_vars

\* C5: a caller who is neither owner, share-list member nor participant of a
\* password-protected room is refused by the join route with "Password is required"
\* when the request carries no password and with the different answer "Invalid room
\* password" when it carries a wrong one, and in both cases the room's participant
\* list stays as it was.
C5_OutsiderPasswordOutcomes ==
  [][(/\ httpResp'.route = "join"
      /\ Password(httpResp'.room) # NoPassword
      /\ ~Privileged(httpResp'.room, httpResp'.user)) =>
       /\ httpResp'.pw = NoPassword =>
            httpResp'.status = 401 /\ httpResp'.msg = "Password is required"
       /\ httpResp'.pw \notin {NoPassword, Password(httpResp'.room)} =>
            httpResp'.status = 401 /\ httpResp'.msg = "Invalid room password"
       /\ httpResp'.pw # Password(httpResp'.room) => participants' = participants]_vars

\* C35: the hub sends roomData and previousMessages of a password-protected room only
\* to a connection whose joinRoom passed the access check; a joinRoom without a user
\* id obtains neither.
C35_RoomDataOnlyAfterCheck ==
  [][\A e \in emitted' :
       (e.ev \in {"roomData", "previousMessages"} /\ Password(e.room) # NoPassword)
         => (pc[e.to].user # NoUser /\ pc[e.to].st = "update")]_vars

----------------------------------------------------------------------------
(* Properties of the signaling relay.                                      *)

\* C7: every relayed offer, answer, iceCandidate and connectionRetry is delivered to
\* at most the one connection named as its target, whatever the target field holds.
C7_RelayPointToPoint ==
  \A e \in emitted :
    e.ev \in {RelayedAs(kind) : kind \in SignalKinds} => e.to = e.arg

\* C22: the relay of an offer, answer, iceCandidate or retryConnection whose target
\* is a connection that is not connected (any more) delivers nothing, sends no
\* error event to the sender, and changes nothing the hub keeps: presence map,
\* subscriptions, suspended handlers, save timers, stored rooms.
C22_RelayToGoneTargetIsSilent ==
  [][\A s \in Sockets, kind \in SignalKinds, target \in Sockets, r \in Rooms :
       (Relay(s, kind, target, r, NoSocket) /\ sockState[target] # "open")
         => /\ emitted' = {}
            /\ UNCHANGED <<sockState, ioRooms, pc, activeUsers, participants, sharedWith, conns>>
            /\ UNCHANGED <<saveTimeouts, saveTimers, saveWriting, storedDoc, msgSaving,
                           messages>>]_vars

\* C36: every relayed offer, answer, iceCandidate and connectionRetry carries as
\* sender the id of the connection the hub received it from, whatever sender the
\* payload named.
C36_SenderIsConnectionId ==
  [][\A e \in emitted' :
       e.ev \in {RelayedAs(kind) : kind \in SignalKinds} => e.about = relayed'.sender]_vars

\* A signal whose payload named another connection as sender was relayed and delivered.
C36_Witness ==
  /\ relayed.kind \in SignalKinds
  /\ relayed.claimed \notin {NoSocket, relayed.sender}
  /\ \E e \in emitted : e.ev = RelayedAs(relayed.kind) /\ e.about = relayed.sender

\* A signal was relayed toward a connection that had disconnected, and reached nobody.
C22_Witness ==
  /\ relayed.kind \in SignalKinds
  /\ relayed.targetState = "closed"
  /\ relayed.to = {}
  /\ sockState[relayed.sender] = "open"
  /\ emitted = {}

----------------------------------------------------------------------------
(* Properties of the client's join.                                        *)

\* C6: when U2, who is neither owner nor on the share list and became a participant
\* of R1 by joining with the correct password, has its joinRoom decided by the hub
\* while U1 is present, U2's connection is registered and U1 receives userJoined
\* with a list of exactly 2 users.
C6_JoinEndToEnd ==
  [][(/\ pc[ClientSocket].st = "findRoom"
      /\ pc'[ClientSocket].st # "findRoom"
      /\ enrolled
      /\ ClientUser \notin sharedWith[ClientRoom])
     => /\ [s |-> ClientSocket, r |-> ClientRoom, u |-> ClientUser] \in conns'
        /\ \E e \in emitted' : /\ e.ev = "userJoined"
                               /\ e.to = "s1"
                               /\ e.about = ClientUser
                               /\ e.n = 2]_vars

\* C27: when the hook has reported Joined (onSuccess) for a room, the hub registers
\* the connection in that room: the hub's joinRoom check never rejects a join that
\* was reported as Joined, and once the hub has handled the client's joinRoom the
\* connection has its presence entry.
C27_JoinedMeansRegistered ==
  [][/\ \A e \in emitted' :
          (e.ev = "error" /\ e.arg = RejectedMessage /\ e.to = ClientSocket)
            => e.room \notin joinedRooms
     /\ (/\ ClientRoom \in joinedRooms'
         /\ wire' = {}
         /\ pc'[ClientSocket].st = "idle"
         /\ sockState'[ClientSocket] = "open")
          => [s |-> ClientSocket, r |-> ClientRoom, u |-> ClientUser] \in conns']_vars

\* C8: a joinRoom call made while an attempt is in flight is a no-op (no request, no
\* abort, the attempt and its deadline untouched), and the client emits joinRoom for
\* the room at most once.
C8_SecondCallIsNoOp ==
  /\ [][(calls' = calls + 1 /\ attempt.stage # "none")
          => /\ attempt' = attempt
             /\ joinAttemptTimeout' = joinAttemptTimeout
             /\ clientOut'.fetch = "-"
             /\ ~clientOut'.aborted]_vars
  /\ [](joinEmits <= 1)

\* C34: an authorization failure (password required, invalid password, room not
\* found, forbidden) ends the join attempt without automatic retry: the step that
\* reports it to onError leaves no deadline and no backoff timer armed, no request in
\* flight, loading and joinInProgress false and the attempt counter 0; and a joinRoom
\* call that follows the report starts a new attempt instead of being ignored.
C34_AuthFailureEndsAttempt ==
  /\ [][(clientOut'.step \in {"checkResponse", "joinResponse"} /\ clientOut'.onError # "-")
          => /\ joinAttemptTimeout' = NoTimer
             /\ ~backoff'.armed
             /\ attempt' = NoAttempt
             /\ ~loading' /\ ~joinInProgress'
             /\ connectionAttempts' = 0
             /\ clientOut'.fetch = "-"]_vars
  /\ [][(/\ clientOut.step \in {"checkResponse", "joinResponse"} /\ clientOut.onError # "-"
         /\ calls' = calls + 1)
          => (clientOut'.fetch = "get" /\ attempt'.stage = "check")]_vars

\* C39: joinedRooms reflects the socket the service holds: a room the hub has
\* rejected the socket's joinRoom for is not in joinedRooms, and a joinRoom call made
\* while the socket has no presence entry and no joinRoom under way at the hub is
\* emitted, not skipped.
C39_JoinedRoomsOfCurrentSocket ==
  /\ [][\A e \in emitted' :
          (e.ev = "error" /\ e.arg = RejectedMessage /\ e.to = wsSocket)
            => e.room \notin joinedRooms']_vars
  /\ [][(/\ clientOut'.onSuccess > 0
         /\ wire = {}
         /\ pc[ClientSocket].st = "idle"
         /\ ~\E c \in conns : c.s = ClientSocket /\ c.r = ClientRoom)
          => clientOut'.emit > 0]_vars

\* C9: joinRoom is emitted and onSuccess invoked only by the attempt that is current
\* and not aborted: once per step, and on 'connect' only by that attempt's listener.
C9_AbortedAttemptIsInert ==
  [][(clientOut'.onSuccess > 0 \/ clientOut'.emit > 0)
       => /\ attempt.stage # "none"
          /\ clientOut'.onSuccess = 1
          /\ (clientOut'.step = "connect" => attempt.stage = "listening")]_vars

\* C10: a join that is never completed ends: each deadline aborts the attempt and
\* schedules a retry while fewer than MaxRetries retries were made; the timeout is
\* reported only after MaxRetries retries and leaves the hook idle (flags false,
\* counter 0, no attempt, no timer, no retry pending); loading goes false only with
\* a report to the caller, and it never stays true.
C10_JoinTerminates ==
  /\ [](connectionAttempts <= MaxRetries)
  /\ [][(clientOut'.step = "deadline" /\ connectionAttempts < MaxRetries)
          => /\ attempt' = NoAttempt
             /\ backoff'.armed
             /\ connectionAttempts' = connectionAttempts + 1
             /\ clientOut'.onError = "-"]_vars
  /\ [][clientOut'.onError = TimeoutMessage
          => /\ connectionAttempts = MaxRetries
             /\ ~loading'
             /\ ~joinInProgress'
             /\ connectionAttempts' = 0
             /\ attempt' = NoAttempt
             /\ ~joinAttemptTimeout'.armed
             /\ ~backoff'.armed]_vars
  /\ [][(loading /\ ~loading') => (clientOut'.onSuccess > 0 \/ clientOut'.onError # "-")]_vars
  /\ (loading ~> ~loading)

C10_Witness ==
  /\ clientOut.onError = TimeoutMessage
  /\ ~loading
  /\ connectionAttempts = 0

----------------------------------------------------------------------------
(* Properties of the durable participant list.                             *)

\* C19: however many joins of a user succeed, sequentially or interleaved over
\* several connections, the room's stored participant list holds the user exactly
\* once: never twice, and never not at all once a join has completed.
C19_ParticipantOnce ==
  /\ \A r \in Rooms, u \in Users :
       Cardinality({i \in 1..Len(participants[r]) : participants[r][i] = u}) <= 1
  /\ \A c \in conns : pc[c.s].st = "idle" => c.u \in Range(participants[c.r])

----------------------------------------------------------------------------
(* Properties of the de-duplicated presence view.                          *)

\* The sockets of the entries that the view of room r holds for user u.
ViewSockets(au, r, u) ==
  {e.socketId : e \in {x \in Range(getUniqueActiveUsers(au, r)) : x.id = u}}

\* The step in which the joinRoom handler of socket s registers user u in room r.
Registers(s, r, u) ==
  /\ pc[s].st \in {"findRoom", "save"}
  /\ pc'[s].st = "update"
  /\ pc[s].room = r
  /\ pc[s].user = u

C28_EntriesOfLiveConnections ==
  \A r \in DOMAIN activeUsers : \A e \in Range(activeUsers[r]) :
    /\ sockState[e.socketId] = "open"
    /\ r \in ioRooms[e.socketId]

\* The hub under clients that send leaveRoom with any user id.
NextLeave ==
  \/ \E s \in Sockets : Connect(s) /\ UNCHANGED <<clientVars, extraVars>>
  \/ \E s \in Sockets, r \in Rooms : JoinRoomStart(s, r, SocketUser(s)) /\ UNCHANGED <<clientVars, extraVars>>
  \/ \E s \in Sockets : JoinRoomCheck(s) /\ UNCHANGED <<clientVars, extraVars>>
  \/ \E s \in Sockets : JoinRoomSaved(s) /\ UNCHANGED <<clientVars, extraVars>>
  \/ \E s \in Sockets : JoinRoomTail(s) /\ UNCHANGED <<clientVars, extraVars>>
  \/ \E s \in Sockets, r \in Rooms : \E u \in Users \cup {NoUser} :
        LeaveRoom(s, r, u) /\ UNCHANGED <<clientVars, extraVars>>
  \/ \E s \in Sockets : Disconnect(s) /\ UNCHANGED <<clientVars, extraVars>>

SpecLeave == Init /\ [][NextLeave]_vars

\* The entries the presence map holds for room r.
EntriesOf(au, r) == IF r \in DOMAIN au THEN au[r] ELSE <<>>

\* C32: a disconnect of connection c removes from every room exactly the entries
\* whose connection is c; a leaveRoom of c removes from the named room exactly the
\* entries of c that carry the named user id; the other entries, of the same or of
\* other users, stay as they are and in their order, whatever user id is sent.
C32_UnregistersOwnEntriesOnly ==
  [][/\ \A s \in Sockets :
          Disconnect(s) =>
            \A r \in Rooms :
              EntriesOf(activeUsers', r)
                = SelectSeq(EntriesOf(activeUsers, r), LAMBDA e : e.socketId # s)
     /\ \A s \in Sockets, r \in Rooms, u \in Users \cup {NoUser} :
          LeaveRoom(s, r, u) =>
            \A q \in Rooms :
              EntriesOf(activeUsers', q)
                = SelectSeq(EntriesOf(activeUsers, q),
                            LAMBDA e : ~(q = r /\ e.socketId = s /\ e.id = u))]_vars

\* The connection s2 has sent leaveRoom with the user id of U1: userLeft was
\* announced for U1, and the entries of s1 and of s2 are where they were.
C32_Witness ==
  /\ \E e \in emitted : e.ev = "userLeft" /\ e.about = "U1" /\ e.arg = "s2"
  /\ "R1" \in DOMAIN activeUsers
  /\ {[id |-> "U1", socketId |-> "s1"], [id |-> "U2", socketId |-> "s2"]}
       \subseteq Range(activeUsers["R1"])

\* C21: the registration of a joinRoom for a user who already has connections
\* registered in the room adds the new connection and leaves every prior entry of
\* that user in the room's raw presence list: no registration removes an entry.
C21_RegistrationKeepsPriorEntries ==
  [][\A r \in Rooms, u \in Users, s \in Sockets :
       (Registers(s, r, u) /\ r \in DOMAIN activeUsers)
         => /\ r \in DOMAIN activeUsers'
            /\ Range(activeUsers[r]) \subseteq Range(activeUsers'[r])
            /\ [id |-> u, socketId |-> s] \in Range(activeUsers'[r])]_vars

----------------------------------------------------------------------------
(* The debounced document save: the codeChange handler and                 *)
(* saveCodeToDatabase.  The clock counts ticks; a save timer is due Window *)
(* ticks after it was armed (3 s in server/socket.js, 300 ms in            *)
(* unnamed/part_005), and a timer that is due runs before the clock moves  *)
(* on.                                                                     *)

MaxChanges == 3
Window == 2
Codes == {"", "a", "b"}
Languages == {"js", "py"}

\* JavaScript's truthiness of the strings the handler tests.
Truthy(str) == str # ""

Older(n) == IF n < Window THEN n + 1 ELSE Window

\* saveCodeToDatabase(roomId, code, language): clear the timer the Map names, arm a
\* new one, and store its handle in the Map.
saveCodeToDatabase(h, r, code, language) ==
  /\ saveTimers' = {t \in saveTimers : ~(saveTimeouts[r] # NoHandle /\ t.id = saveTimeouts[r])}
                      \cup {[id |-> h, room |-> r, code |-> code, language |-> language, age |-> 0]}
  /\ saveTimeouts' = [saveTimeouts EXCEPT ![r] = h]

\* socket.on('codeChange')
CodeChange(s, r, code, language) ==
  /\ sockState[s] = "open"
  /\ changes < MaxChanges
  /\ changes' = changes + 1
  /\ emitted' = SocketTo(sockState, ioRooms, s, r, "codeUpdate", NoUser, <<code, language>>, 0)
  /\ IF Truthy(r) /\ Truthy(code)
       THEN saveCodeToDatabase(changes + 1, r, code, language)
       ELSE UNCHANGED <<saveTimers, saveTimeouts>>
  /\ lastChange' = [lastChange EXCEPT ![r] = [code |-> code, language |-> language]]
  /\ quiet' = [quiet EXCEPT ![r] = 0]
  /\ writesSince' = [writesSince EXCEPT ![r] = 0]
  /\ docOut' = NoWrite
  /\ httpResp' = NoResp
  /\ UNCHANGED <<hub, sockState, ioRooms, pc, activeUsers, participants, sharedWith, conns>>
  /\ UNCHANGED <<saveWriting, storedDoc>>
  /\ received' = received + 1
  /\ published' = [published EXCEPT ![r] = Append(@, received + 1)]
  /\ UNCHANGED <<relayed, msgSaving, messages, failures>>
  /\ UNCHANGED videoVars

\* The save timer's callback up to its await: the write is issued.
SaveTimerFires(t) ==
  /\ t \in saveTimers
  /\ t.age = Window
  /\ saveTimers' = saveTimers \ {t}
  /\ storedDoc' = [storedDoc EXCEPT ![t.room] = [code |-> t.code, language |-> t.language]]
  /\ saveWriting' = saveWriting \cup {[id |-> t.id, room |-> t.room]}
  /\ docOut' = [room |-> t.room, code |-> t.code, language |-> t.language]
  /\ writesSince' = [writesSince EXCEPT ![t.room] = IF @ < MaxChanges THEN @ + 1 ELSE @]
  /\ emitted' = {}
  /\ httpResp' = NoResp
  /\ UNCHANGED <<hub, sockState, ioRooms, pc, activeUsers, participants, sharedWith, conns>>
  /\ UNCHANGED <<saveTimeouts, lastChange, quiet, changes>>
  /\ UNCHANGED <<videoVars, chatVars>>

\* The callback after its await: saveTimeouts.delete(roomId), whatever handle the
\* Map holds by then.
SaveWriteDone(w) ==
  /\ w \in saveWriting
  /\ saveWriting' = saveWriting \ {w}
  /\ saveTimeouts' = [saveTimeouts EXCEPT ![w.room] = NoHandle]
  /\ docOut' = NoWrite
  /\ emitted' = {}
  /\ httpResp' = NoResp
  /\ UNCHANGED <<hub, sockState, ioRooms, pc, activeUsers, participants, sharedWith, conns>>
  /\ UNCHANGED <<saveTimers, storedDoc, lastChange, quiet, writesSince, changes>>
  /\ UNCHANGED <<videoVars, chatVars>>

\* One clock tick; a timer that is due runs first.
DocTick ==
  /\ \A t \in saveTimers : t.age < Window
  /\ \E r \in Rooms : quiet[r] < Window
  /\ saveTimers' = {[t EXCEPT !.age = Older(t.age)] : t \in saveTimers}
  /\ quiet' = [r \in Rooms |-> Older(quiet[r])]
  /\ docOut' = NoWrite
  /\ emitted' = {}
  /\ httpResp' = NoResp
  /\ UNCHANGED <<hub, sockState, ioRooms, pc, activeUsers, participants, sharedWith, conns>>
  /\ UNCHANGED <<saveTimeouts, saveWriting, storedDoc, lastChange, writesSince, changes>>
  /\ UNCHANGED <<videoVars, chatVars>>

\* Two connections subscribed to the room, nothing edited yet.
InitDocSpec ==
  /\ hub \in HubVersions
  /\ sockState = [s \in Sockets |-> IF s \in GateSockets THEN "open" ELSE "new"]
  /\ ioRooms = [s \in Sockets |-> IF s \in GateSockets THEN {ClientRoom} ELSE {}]
  /\ pc = [s \in Sockets |-> Idle]
  /\ activeUsers = MapSet(<<>>, ClientRoom, <<[id |-> "U1", socketId |-> "s1"],
                                              [id |-> "U2", socketId |-> "s2"]>>)
  /\ participants = [r \in Rooms |-> <<"U1", "U2">>]
  /\ sharedWith = [r \in Rooms |-> {}]
  /\ emitted = {}
  /\ httpResp = NoResp
  /\ conns = {[s |-> "s1", r |-> ClientRoom, u |-> "U1"], [s |-> "s2", r |-> ClientRoom, u |-> "U2"]}
  /\ wsSocket = NoSocket
  /\ InitClient
  /\ InitExtra

NextDoc ==
  \/ \E s \in GateSockets, r \in Rooms, code \in Codes, language \in Languages :
        CodeChange(s, r, code, language) /\ UNCHANGED clientVars
  \/ \E t \in saveTimers : SaveTimerFires(t) /\ UNCHANGED clientVars
  \/ \E w \in saveWriting : SaveWriteDone(w) /\ UNCHANGED clientVars
  \/ DocTick /\ UNCHANGED clientVars

SpecDoc == InitDocSpec /\ [][NextDoc]_vars

\* C18: a durable write is issued only when the quiet window has elapsed since the
\* room's last codeChange event, it is the only write since that event, and it
\* carries the code and the language of that event, empty content included.
C18_OneWriteOfLastChange ==
  [][\A r \in Rooms :
       docOut'.room = r =>
         /\ quiet[r] = Window
         /\ writesSince[r] = 0
         /\ docOut'.code = lastChange[r].code
         /\ docOut'.language = lastChange[r].language]_vars

\* C40: at any time at most one save timer is pending per room, and the room's entry
\* of saveTimeouts names it: the completion of an earlier write does not remove the
\* registration of a newer pending timer, so a later codeChange cancels that timer
\* instead of arming a second one beside it.
C40_OnePendingTimerPerRoom ==
  /\ \A r \in Rooms : Cardinality({t \in saveTimers : t.room = r}) <= 1
  /\ \A t \in saveTimers : saveTimeouts[t.room] = t.id

----------------------------------------------------------------------------
(* The chat and cursor handlers of the hub, beside the document save.  A    *)
(* sendMessage handler is suspended three times: in message.save(), in     *)
(* message.populate() and in Room.findByIdAndUpdate(); any of the three    *)
(* can reject, and so can the store write of the save timer's callback.    *)

MaxEvents == 2
Contents == {"", "hi"}
Positions == {"", "p"}

hubQuietChat ==
  /\ httpResp' = NoResp
  /\ UNCHANGED <<hub, sockState, ioRooms, pc, activeUsers, participants, sharedWith, conns>>

\* The cursor handler that broadcasts with io.to: the sender included.
CursorChangeToAll(s, r, position, userId) ==
  /\ sockState[s] = "open"
  /\ emitted' = IF Truthy(r) /\ Truthy(position) /\ userId # NoUser
                THEN IoTo(sockState, ioRooms, r, "cursorUpdate", userId, position, 0)
                ELSE {}
  /\ hubQuietChat
  /\ UNCHANGED <<docVars, videoVars, chatVars>>

\* socket.on('cursorChange')
CursorChange(s, r, position, userId) ==
  /\ sockState[s] = "open"
  /\ emitted' = IF Truthy(r) /\ Truthy(position) /\ userId # NoUser
                THEN SocketTo(sockState, ioRooms, s, r, "cursorUpdate", userId, position, 0)
                ELSE {}
  /\ hubQuietChat
  /\ UNCHANGED <<docVars, videoVars, chatVars>>

\* socket.on('sendMessage') up to its first await.
SendMessage(s, r, userId, content) ==
  /\ sockState[s] = "open"
  /\ received < MaxEvents
  /\ received' = received + 1
  /\ IF ~Truthy(r) \/ userId = NoUser \/ ~Truthy(content)
     THEN /\ emitted' = SocketEmit(sockState, s, r, "error", NoUser, "Invalid message data", 0)
          /\ UNCHANGED msgSaving
     ELSE /\ emitted' = {}
          /\ msgSaving' = msgSaving \cup {[n |-> received + 1, s |-> s, r |-> r, u |-> userId,
                                           st |-> "save"]}
  /\ hubQuietChat
  /\ UNCHANGED <<relayed, messages, published, failures>>
  /\ UNCHANGED <<docVars, videoVars>>

\* await message.save() has resolved: the message is in the store.
MessageSaved(m) ==
  /\ m \in msgSaving
  /\ m.st = "save"
  /\ messages' = messages \cup {m.n}
  /\ msgSaving' = (msgSaving \ {m}) \cup {[m EXCEPT !.st = "populate"]}
  /\ emitted' = {}
  /\ hubQuietChat
  /\ UNCHANGED <<relayed, received, published, failures>>
  /\ UNCHANGED <<docVars, videoVars>>

\* await message.populate(...) has resolved: io.to(roomId).emit('newMessage', message).
MessagePopulated(m) ==
  /\ m \in msgSaving
  /\ m.st = "populate"
  /\ emitted' = IoTo(sockState, ioRooms, m.r, "newMessage", m.u, m.s, m.n)
  /\ published' = [published EXCEPT ![m.r] = Append(@, m.n)]
  /\ msgSaving' = (msgSaving \ {m}) \cup {[m EXCEPT !.st = "update"]}
  /\ hubQuietChat
  /\ UNCHANGED <<relayed, received, messages, failures>>
  /\ UNCHANGED <<docVars, videoVars>>

\* await Room.findByIdAndUpdate(roomId, {lastActivity}) has resolved: the handler ends.
MessageDone(m) ==
  /\ m \in msgSaving
  /\ m.st = "update"
  /\ msgSaving' = msgSaving \ {m}
  /\ emitted' = {}
  /\ hubQuietChat
  /\ UNCHANGED <<relayed, received, messages, published, failures>>
  /\ UNCHANGED <<docVars, videoVars>>

\* The store call the handler is suspended in rejects: the catch block.
MessageFails(m) ==
  /\ m \in msgSaving
  /\ msgSaving' = msgSaving \ {m}
  /\ failures' = failures \cup {[op |-> m.st, n |-> m.n, origin |-> m.s]}
  /\ emitted' = SocketEmit(sockState, m.s, m.r, "error", NoUser, "Failed to send message", m.n)
  /\ hubQuietChat
  /\ UNCHANGED <<relayed, received, messages, published>>
  /\ UNCHANGED <<docVars, videoVars>>

\* The save timer's callback whose store write rejects: the catch block logs, and
\* saveTimeouts.delete(roomId) is not reached.
SaveTimerFails(t) ==
  /\ t \in saveTimers
  /\ t.age = Window
  /\ saveTimers' = saveTimers \ {t}
  /\ docOut' = [room |-> t.room, code |-> t.code, language |-> t.language]
  /\ writesSince' = [writesSince EXCEPT ![t.room] = IF @ < MaxChanges THEN @ + 1 ELSE @]
  /\ failures' = failures \cup {[op |-> "document", n |-> t.id, origin |-> "-"]}
  /\ emitted' = {}
  /\ hubQuietChat
  /\ UNCHANGED <<saveTimeouts, saveWriting, storedDoc, lastChange, quiet, changes>>
  /\ UNCHANGED <<relayed, received, msgSaving, messages, published>>
  /\ UNCHANGED videoVars

\* Two connections in the room edit and chat; a store call can fail and a
\* connection can go.
NextChat ==
  \/ \E s \in GateSockets, r \in Rooms :
        received < MaxEvents /\ CodeChange(s, r, "a", "js") /\ UNCHANGED clientVars
  \/ \E t \in saveTimers : SaveTimerFires(t) /\ UNCHANGED clientVars
  \/ \E t \in saveTimers : SaveTimerFails(t) /\ UNCHANGED clientVars
  \/ \E w \in saveWriting : SaveWriteDone(w) /\ UNCHANGED clientVars
  \/ DocTick /\ UNCHANGED clientVars
  \/ \E s \in GateSockets, r \in Rooms, content \in Contents :
        SendMessage(s, r, SocketUser(s), content) /\ UNCHANGED clientVars
  \/ \E m \in msgSaving : MessageSaved(m) /\ UNCHANGED clientVars
  \/ \E m \in msgSaving : MessagePopulated(m) /\ UNCHANGED clientVars
  \/ \E m \in msgSaving : MessageDone(m) /\ UNCHANGED clientVars
  \/ \E m \in msgSaving : MessageFails(m) /\ UNCHANGED clientVars
  \/ \E s \in GateSockets : Disconnect(s) /\ UNCHANGED <<clientVars, extraVars>>

SpecChat == InitDocSpec /\ [][NextChat]_vars

\* C23: what the hub publishes to one room, it publishes in the order in which it
\* received the events (codeChange, sendMessage), also when the store call of an
\* earlier event completes after that of a later one.
C23_PublishedInReceptionOrder ==
  \A r \in Rooms : \A i, j \in 1..Len(published[r]) :
    i < j => published[r][i] < published[r][j]

\* What the claim asks of the step in which the store call f fails.
Surfaced(f) ==
  /\ (f.origin = "-" \/ sockState[f.origin] = "open")
       => \E e \in emitted' : e.ev = "error" /\ (f.origin # "-" => e.to = f.origin)
  /\ \A m \in msgSaving' : m.n # f.n
  /\ f.op = "document" => \A t \in saveTimers' : t.id # f.n

\* C24: a persistence failure is never swallowed: the step in which the store write
\* of a sendMessage or of the debounced document writer fails emits an error event
\* (to the originating connection, if it is still connected) and leaves no handler
\* or timer behind that would repeat the write; a message whose save failed is never
\* broadcast as newMessage.
C24_StoreFailureSurfaced ==
  [][/\ \A f \in failures' \ failures : Surfaced(f)
     /\ \A f \in failures', r \in Rooms :
          f.op = "save" => f.n \notin Range(published'[r])]_vars

\* Two connections in the room edit and move their cursors while the save timers
\* run; a connection can go.
NextCursor ==
  \/ \E s \in GateSockets, r \in Rooms : CodeChange(s, r, "a", "js") /\ UNCHANGED clientVars
  \/ \E t \in saveTimers : SaveTimerFires(t) /\ UNCHANGED clientVars
  \/ \E w \in saveWriting : SaveWriteDone(w) /\ UNCHANGED clientVars
  \/ DocTick /\ UNCHANGED clientVars
  \/ \E s \in GateSockets, r \in Rooms \cup {""}, position \in Positions :
        CursorChange(s, r, position, SocketUser(s)) /\ UNCHANGED clientVars
  \/ \E s \in GateSockets : Disconnect(s) /\ UNCHANGED <<clientVars, extraVars>>

SpecCursor == InitDocSpec /\ [][NextCursor]_vars

\* C26: a cursorChange is broadcast as cursorUpdate to the other connections of the
\* room only, never to its sender, and does nothing else: no durable write, no save
\* timer armed or cancelled, the presence map and the stored room as before.
C26_CursorBroadcastOnly ==
  [][\A s \in Sockets, r \in Rooms \cup {""}, position \in Positions :
       CursorChange(s, r, position, SocketUser(s)) =>
         /\ \A e \in emitted' :
              /\ e.ev = "cursorUpdate"
              /\ e.to # s
              /\ e.room \in ioRooms[e.to]
         /\ (Truthy(r) /\ Truthy(position)) =>
              {e.to : e \in emitted'} = {t \in Sockets \ {s} : sockState[t] = "open" /\ r \in ioRooms[t]}
         /\ docOut' = docOut
         /\ UNCHANGED <<activeUsers, saveTimeouts, saveTimers, saveWriting, storedDoc,
                        messages, msgSaving, participants>>]_vars

\* The room's events sent by any connection, a connection that never joined included.
NextOutsider ==
  \/ \E s \in Sockets \ GateSockets : Connect(s) /\ UNCHANGED <<clientVars, extraVars>>
  \/ \E s \in Sockets, r \in Rooms :
        received < MaxEvents /\ CodeChange(s, r, "a", "js") /\ UNCHANGED clientVars
  \/ \E t \in saveTimers : SaveTimerFires(t) /\ UNCHANGED clientVars
  \/ \E w \in saveWriting : SaveWriteDone(w) /\ UNCHANGED clientVars
  \/ DocTick /\ UNCHANGED clientVars
  \/ \E s \in Sockets, r \in Rooms, position \in Positions :
        CursorChange(s, r, position, SocketUser(s)) /\ UNCHANGED clientVars
  \/ \E s \in Sockets, r \in Rooms, content \in Contents :
        SendMessage(s, r, SocketUser(s), content) /\ UNCHANGED clientVars
  \/ \E m \in msgSaving : MessageSaved(m) /\ UNCHANGED clientVars
  \/ \E m \in msgSaving : MessagePopulated(m) /\ UNCHANGED clientVars
  \/ \E m \in msgSaving : MessageDone(m) /\ UNCHANGED clientVars

SpecOutsider == InitDocSpec /\ [][NextOutsider]_vars

\* Connection s has a presence entry in room r.
Registered(s, r) ==
  r \in DOMAIN activeUsers /\ \E i \in 1..Len(activeUsers[r]) : activeUsers[r][i].socketId = s

\* C37: codeChange, cursorChange and sendMessage affect a room only when the sending
\* connection is registered in it: an event that names a room in which the sender has
\* no presence entry is not broadcast, arms no document write and stores no message.
C37_EventsOfRegisteredOnly ==
  [][\A s \in Sockets, r \in Rooms :
       ~Registered(s, r) =>
         /\ CodeChange(s, r, "a", "js") => (emitted' = {} /\ saveTimers' = saveTimers)
         /\ (\E position \in Positions : CursorChange(s, r, position, SocketUser(s)))
              => emitted' = {}
         /\ (\E content \in Contents : SendMessage(s, r, SocketUser(s), content))
              => msgSaving' = msgSaving]_vars

\* The cursor of s1 has been broadcast to s2, the other connection of the room, while
\* a save timer of the room is pending.
C26_Witness ==
  /\ emitted = {Ev("cursorUpdate", "s2", "R1", "U1", "p", 0)}
  /\ saveTimers # {}
  /\ {"s1", "s2"} \subseteq {t \in Sockets : sockState[t] = "open" /\ "R1" \in ioRooms[t]}

----------------------------------------------------------------------------
(* The peer connection orchestrator (src/components/room/VideoChat.tsx) of *)
(* two tabs.  The handlers a tab has registered, and the                   *)
(* createPeerConnection they call, read the peerConnections,               *)
(* iceCandidatesBuffer and connectionStatus of the render that registered  *)
(* them; the state itself moves on with every setState.                    *)

\* JavaScript's a < b on strings: by UTF-16 code units, a proper prefix first.
RECURSIVE LexLess(_, _)
LexLess(a, b) ==
  IF b = <<>> THEN FALSE
  ELSE IF a = <<>> THEN TRUE
  ELSE IF Head(a) # Head(b) THEN Head(a) < Head(b)
  ELSE LexLess(Tail(a), Tail(b))

\* socket.id < remoteUserId
Offers(c, key) == LexLess(idText[c], idText[key])

\* CONNECTION_TIMEOUT, and the clock's tick; the delays of 20 ms and 50 ms are shorter
\* than a tick.
CONNECTION_TIMEOUT == 1500
TickMs == 500
Ticks(ms) == ms \div TickMs

Sig(ev, target, why) == [ev |-> ev, target |-> target, why |-> why]
\* A timer and what its callback's closure holds: the peerConnections (view) and the
\* connectionStatus of the key (seen).
Timer(c, kind, key, ms, view, seen) ==
  [owner |-> c, kind |-> kind, key |-> key, left |-> Ticks(ms), view |-> view, seen |-> seen]
Step(step, c, key, emits) == [step |-> step, by |-> c, key |-> key, emits |-> emits]

\* new RTCPeerConnection(...): the lowest link number not in use.
FreeLink == CHOOSE l \in LinkIds : rtc[l] = NoRtc /\ \A j \in 1..(l - 1) : rtc[j] # NoRtc

\* A closed link that no state and no handler refers to any more is forgotten.
Collect(r, pcs, views) ==
  [l \in LinkIds |->
     IF /\ ~r[l].open
        /\ \A c \in VClients, k \in VideoIds : pcs[c][k] # l /\ views[c][k] # l
     THEN NoRtc ELSE r[l]]

\* A candidate array that no buffer, no handler and no suspended replay refers to is
\* forgotten.
CollectArrays(arr, bufs, views) ==
  [a \in ArrayIds |->
     IF /\ \A c \in VClients, k \in VideoIds : bufs[c][k] # a /\ views[c][k] # a
        /\ \A c \in VClients : draining[c].array # a
        /\ \A c \in VClients, k \in VideoIds : draining[c].buf[k] # a
     THEN <<>> ELSE arr[a]]

\* `[]`: the lowest array number not in use.
FreeArray == CHOOSE a \in ArrayIds : arrays[a] = <<>> /\ \A j \in 1..(a - 1) : arrays[j] # <<>>

\* createPeerConnection(remoteUserId), called with the peerConnections and the
\* connectionStatus its closure holds: `view` and `seen`.  Does createPeerConnection
\* pass its early return?
Creates(view, key) == view[key] = NoLink

\* The offer createPeerConnection sends when it creates the link (lines 861-930).
CreateEmits(c, key, view) ==
  IF Creates(view, key) /\ Offers(c, key) THEN {Sig("offer", key, "create")} ELSE {}

\* The link createPeerConnection returns.
LinkFor(view, key) == IF Creates(view, key) THEN FreeLink ELSE view[key]

createPeerConnection(c, key, view, seen, timersBefore) ==
  IF Creates(view, key)
  THEN /\ \E l \in LinkIds : rtc[l] = NoRtc
       /\ attemptsRef' = [attemptsRef EXCEPT ![c][key] = IF @ < MaxLinks THEN @ + 1 ELSE @]
       /\ rtc' = [rtc EXCEPT ![FreeLink] =
                    [owner |-> c, key |-> key, open |-> TRUE, remote |-> FALSE,
                     offered |-> Offers(c, key), seen |-> seen, added |-> <<>>]]
       /\ vTimers' = timersBefore \cup {Timer(c, "connectionTimeout", key, CONNECTION_TIMEOUT, EmptyMap, seen)}
       /\ peerConnections' = [peerConnections EXCEPT ![c][key] = FreeLink]
       /\ connectionStatus' = [connectionStatus EXCEPT ![c][key] = "new"]
  ELSE /\ vTimers' = timersBefore
       /\ UNCHANGED <<attemptsRef, rtc, peerConnections, connectionStatus>>

hubQuietVideo ==
  /\ emitted' = {}
  /\ httpResp' = NoResp
  /\ UNCHANGED <<hub, sockState, ioRooms, pc, activeUsers, participants, sharedWith, conns>>

\* getMedia resolves (lines 160-199): setLocalStream, emit streamReady, and
\* retryConnections 20 ms later.
GetMedia(c) ==
  /\ mounted[c] = "none"
  /\ mounted' = [mounted EXCEPT ![c] = "media"]
  /\ vTimers' = vTimers \cup {Timer(c, "mediaRetry", "-", 20, EmptyMap, "-")}
  /\ vOut' = Step("getMedia", c, "-", {Sig("streamReady", ClientRoom, "media")})
  /\ hubQuietVideo
  /\ UNCHANGED <<idText, peerConnections, pcView, rtc, iceCandidatesBuffer, bufView, arrays,
                 connectionStatus, statusView, attemptsRef, retryWire, sinceRetry, arrivals, draining>>

\* The ids of the presence list the tab is given, its own left out (lines 285-290).
PresenceKeys(c) ==
  {e.id : e \in Range(getUniqueActiveUsers(activeUsers, ClientRoom))} \ {SocketUser(c), c}

\* A render whose effect (lines 276-590) runs: the handlers are registered anew over
\* the current state, and a link is created to every presence entry.
Render(c) ==
  /\ \/ mounted[c] = "media"
     \/ /\ mounted[c] = "ready"
        /\ \/ pcView[c] # peerConnections[c]
           \/ bufView[c] # iceCandidatesBuffer[c]
  /\ mounted' = [mounted EXCEPT ![c] = "ready"]
  /\ bufView' = [bufView EXCEPT ![c] = iceCandidatesBuffer[c]]
  /\ statusView' = [statusView EXCEPT ![c] = connectionStatus[c]]
  /\ \/ \E key \in PresenceKeys(c) :
          /\ Creates(peerConnections[c], key)
          /\ createPeerConnection(c, key, peerConnections[c], connectionStatus[c][key], vTimers)
          /\ pcView' = [pcView EXCEPT ![c] = peerConnections[c]]
          /\ vOut' = Step("effect", c, key, CreateEmits(c, key, peerConnections[c]))
     \/ /\ \A key \in PresenceKeys(c) : ~Creates(peerConnections[c], key)
        /\ pcView' = [pcView EXCEPT ![c] = peerConnections[c]]
        /\ rtc' = Collect(rtc, peerConnections, pcView')
        /\ vOut' = Step("effect", c, "-", {})
        /\ UNCHANGED <<attemptsRef, vTimers, peerConnections, connectionStatus>>
  /\ arrays' = CollectArrays(arrays, iceCandidatesBuffer, bufView')
  /\ hubQuietVideo
  /\ UNCHANGED <<idText, iceCandidatesBuffer, retryWire, sinceRetry, arrivals, draining>>

\* The retryConnections that getMedia scheduled (lines 196-198, 1035-1067), a
\* closure of the first render: it holds no links and no localStream, so it closes
\* nothing, resets the four maps, and its createPeerConnection returns null.
MediaRetry(c) ==
  /\ \E t \in vTimers :
       /\ t.owner = c /\ t.kind = "mediaRetry" /\ t.left = 0
       /\ vTimers' = vTimers \ {t}
  /\ peerConnections' = [peerConnections EXCEPT ![c] = EmptyMap]
  /\ connectionStatus' = [connectionStatus EXCEPT ![c] = NoStatus]
  /\ iceCandidatesBuffer' = [iceCandidatesBuffer EXCEPT ![c] = EmptyMap]
  /\ vOut' = Step("retryConnections", c, "-", {Sig("requestReconnect", ClientRoom, "media")})
  /\ hubQuietVideo
  /\ UNCHANGED <<idText, mounted, pcView, rtc, bufView, arrays, statusView, attemptsRef,
                 retryWire, sinceRetry, arrivals, draining>>

\* handleUserJoined (lines 292-298): the hub announces a connection of user u.
UserJoined(c, u) ==
  /\ mounted[c] = "ready"
  /\ u # SocketUser(c) /\ u # c
  /\ createPeerConnection(c, u, pcView[c], statusView[c][u], vTimers)
  /\ vOut' = Step("userJoined", c, u, CreateEmits(c, u, pcView[c]))
  /\ hubQuietVideo
  /\ UNCHANGED <<idText, mounted, pcView, iceCandidatesBuffer, bufView, arrays, statusView,
                 retryWire, sinceRetry, arrivals, draining>>

\* pc.onnegotiationneeded (lines 770-803) of link l.
NegotiationNeeded(l) ==
  /\ rtc[l].open
  /\ vOut' = Step("negotiationneeded", rtc[l].owner, rtc[l].key,
                  IF Offers(rtc[l].owner, rtc[l].key)
                  THEN {Sig("offer", rtc[l].key, "negotiation")} ELSE {})
  /\ hubQuietVideo
  /\ UNCHANGED <<idText, mounted, peerConnections, pcView, rtc, iceCandidatesBuffer, bufView,
                 arrays, connectionStatus, statusView, attemptsRef, vTimers, retryWire,
                 sinceRetry, arrivals, draining>>

\* The model lets a tab have MaxPending handler timers of 20 ms pending at a time.
MaxPending == 1
ShortTimers == {"streamReady", "reconnectPeers", "connectionRetry"}
MayArm(c) == Cardinality({t \in vTimers : t.owner = c /\ t.kind \in ShortTimers}) < MaxPending

\* handleStreamReady (lines 490-518): the tab of user u has its media.
StreamReady(c, u) ==
  /\ mounted[c] = "ready"
  /\ MayArm(c)
  /\ u # SocketUser(c)
  /\ vTimers' = vTimers \cup {Timer(c, "streamReady", u, 20, pcView[c], statusView[c][u])}
  /\ vOut' = Step("streamReady", c, u, {})
  /\ hubQuietVideo
  /\ UNCHANGED <<idText, mounted, peerConnections, pcView, rtc, iceCandidatesBuffer, bufView,
                 arrays, connectionStatus, statusView, attemptsRef, retryWire, sinceRetry,
                 arrivals, draining>>

\* Its timer (lines 492-516): renegotiate over the link the handler saw, or create one.
StreamReadyTimer(t) ==
  /\ t \in vTimers /\ t.kind = "streamReady" /\ t.left = 0
  /\ createPeerConnection(t.owner, t.key, t.view, t.seen, vTimers \ {t})
  /\ vOut' = Step("streamReadyTimer", t.owner, t.key,
                  IF Creates(t.view, t.key) THEN CreateEmits(t.owner, t.key, t.view)
                  ELSE IF rtc[t.view[t.key]].open
                  THEN {Sig("offer", t.key, "streamReady")} ELSE {})
  /\ hubQuietVideo
  /\ UNCHANGED <<idText, mounted, pcView, iceCandidatesBuffer, bufView, arrays, statusView,
                 retryWire, sinceRetry, arrivals, draining>>

\* handleReconnectPeers (lines 533-567): the link the handler sees is closed and
\* stays in the state.
ReconnectPeers(c, from) ==
  /\ mounted[c] = "ready"
  /\ MayArm(c)
  /\ from # c
  /\ rtc' = IF pcView[c][from] # NoLink
            THEN [rtc EXCEPT ![pcView[c][from]].open = FALSE] ELSE rtc
  /\ vTimers' = vTimers \cup {Timer(c, "reconnectPeers", from, 20, pcView[c], statusView[c][from])}
  /\ vOut' = Step("reconnectPeers", c, from, {})
  /\ hubQuietVideo
  /\ UNCHANGED <<idText, mounted, peerConnections, pcView, iceCandidatesBuffer, bufView,
                 arrays, connectionStatus, statusView, attemptsRef, retryWire, sinceRetry,
                 arrivals, draining>>

\* Its timer (lines 542-565): createPeerConnection, then an offer of its own if the
\* tab's socket id is the smaller; createOffer fails on the closed link.
ReconnectTimer(t) ==
  /\ t \in vTimers /\ t.kind = "reconnectPeers" /\ t.left = 0
  /\ createPeerConnection(t.owner, t.key, t.view, t.seen, vTimers \ {t})
  /\ vOut' = Step("reconnectTimer", t.owner, t.key,
                  CreateEmits(t.owner, t.key, t.view)
                  \cup (IF Offers(t.owner, t.key) /\ (Creates(t.view, t.key) \/ rtc[t.view[t.key]].open)
                        THEN {Sig("offer", t.key, "reconnectPeers")} ELSE {}))
  /\ hubQuietVideo
  /\ UNCHANGED <<idText, mounted, pcView, iceCandidatesBuffer, bufView, arrays, statusView,
                 retryWire, sinceRetry, arrivals, draining>>

\* The candidates, and the number of offers and answers, tab c received from sender.
Candidates(c, sender) == SelectSeq(arrivals[c][sender], LAMBDA x : x > 0)
Descriptions(c, sender) == Len(arrivals[c][sender]) - Len(Candidates(c, sender))

\* The buffering of handleIceCandidate (lines 423-427, 431-436): a copy of the
\* handler's Map, in which the sender's array, the handler's if it has one and a new
\* one otherwise, receives the candidate; the copy becomes the state.
BufferCandidate(c, sender, n) ==
  /\ bufView[c][sender] # NoArray \/ \E a \in ArrayIds : arrays[a] = <<>>
  /\ LET a == IF bufView[c][sender] # NoArray THEN bufView[c][sender] ELSE FreeArray
     IN /\ arrays' = [arrays EXCEPT ![a] = Append(@, n)]
        /\ iceCandidatesBuffer' = [iceCandidatesBuffer EXCEPT ![c] = [bufView[c] EXCEPT ![sender] = a]]

\* pc.addIceCandidate(candidate) on link l; on a closed link the call is rejected.
AddCandidate(r, l, n) == IF r[l].open THEN [r EXCEPT ![l].added = Append(@, n)] ELSE r

\* handleIceCandidate (lines 406-442): the next candidate of `sender` arrives.
HandleIceCandidate(c, sender) ==
  /\ mounted[c] = "ready"
  /\ sender # c
  /\ Len(Candidates(c, sender)) < MaxCandidates
  /\ LET n == Len(Candidates(c, sender)) + 1
         l == pcView[c][sender]
     IN /\ arrivals' = [arrivals EXCEPT ![c][sender] = Append(@, n)]
        /\ IF l # NoLink
           THEN IF rtc[l].remote
                THEN /\ rtc' = AddCandidate(rtc, l, n)
                     /\ UNCHANGED <<arrays, iceCandidatesBuffer, attemptsRef, vTimers,
                                    peerConnections, connectionStatus>>
                     /\ vOut' = Step("iceCandidate", c, sender, {})
                ELSE /\ BufferCandidate(c, sender, n)
                     /\ UNCHANGED <<rtc, attemptsRef, vTimers, peerConnections, connectionStatus>>
                     /\ vOut' = Step("iceCandidate", c, sender, {})
           ELSE /\ BufferCandidate(c, sender, n)
                /\ createPeerConnection(c, sender, pcView[c], statusView[c][sender], vTimers)
                /\ vOut' = Step("iceCandidate", c, sender, CreateEmits(c, sender, pcView[c]))
  /\ hubQuietVideo
  /\ UNCHANGED <<idText, mounted, pcView, bufView, statusView, retryWire, sinceRetry, draining>>

\* handleOffer (lines 300-310) up to `await pc.setRemoteDescription`.
OfferArrives(c, sender) ==
  /\ mounted[c] = "ready"
  /\ sender # c
  /\ draining[c] = NoDrain
  /\ Descriptions(c, sender) < MaxDescriptions
  /\ createPeerConnection(c, sender, pcView[c], statusView[c][sender], vTimers)
  /\ draining' = [draining EXCEPT ![c] =
                    [kind |-> "offer", key |-> sender, link |-> LinkFor(pcView[c], sender),
                     array |-> bufView[c][sender], next |-> 0, buf |-> bufView[c]]]
  /\ vOut' = Step("offer", c, sender, CreateEmits(c, sender, pcView[c]))
  /\ arrivals' = [arrivals EXCEPT ![c][sender] = Append(@, 0)]
  /\ hubQuietVideo
  /\ UNCHANGED <<idText, mounted, pcView, iceCandidatesBuffer, bufView, arrays, statusView,
                 retryWire, sinceRetry>>

\* handleAnswer (lines 361-369) up to `await pc.setRemoteDescription`; without a link
\* in the handler's peerConnections it does nothing.
AnswerArrives(c, sender) ==
  /\ mounted[c] = "ready"
  /\ sender # c
  /\ draining[c] = NoDrain
  /\ Descriptions(c, sender) < MaxDescriptions
  /\ pcView[c][sender] # NoLink
  /\ draining' = [draining EXCEPT ![c] =
                    [kind |-> "answer", key |-> sender, link |-> pcView[c][sender],
                     array |-> bufView[c][sender], next |-> 0, buf |-> bufView[c]]]
  /\ vOut' = Step("answer", c, sender, {})
  /\ arrivals' = [arrivals EXCEPT ![c][sender] = Append(@, 0)]
  /\ hubQuietVideo
  /\ UNCHANGED <<idText, mounted, peerConnections, pcView, rtc, iceCandidatesBuffer, bufView,
                 arrays, connectionStatus, statusView, attemptsRef, vTimers, retryWire,
                 sinceRetry>>

\* The candidates the suspended handler replays: the array its Map held for the
\* sender, as it is now, or `[]`.
Replayed(d) == IF d.array = NoArray THEN <<>> ELSE arrays[d.array]

\* The end of handleOffer (lines 325-346): the answer is sent, the status is set;
\* the buffer is left as it is.  The end of handleAnswer (lines 382-390): the
\* handler's Map without the sender becomes the buffer, the status is set.
FinishReplay(c, d) ==
  /\ draining' = [draining EXCEPT ![c] = NoDrain]
  /\ IF d.kind = "offer"
     THEN /\ connectionStatus' = [connectionStatus EXCEPT ![c][d.key] = "connecting"]
          /\ vOut' = Step("offerDone", c, d.key, {Sig("answer", d.key, "offer")})
          /\ UNCHANGED iceCandidatesBuffer
     ELSE /\ connectionStatus' = [connectionStatus EXCEPT ![c][d.key] = "connected"]
          /\ vOut' = Step("answerDone", c, d.key, {})
          /\ iceCandidatesBuffer' = [iceCandidatesBuffer EXCEPT ![c] = [d.buf EXCEPT ![d.key] = NoArray]]

\* The suspended offer or answer handler resumes: after setRemoteDescription it makes
\* its first addIceCandidate call, after each addIceCandidate the next one, and after
\* the last one it finishes.  On a closed link setRemoteDescription is rejected and
\* the handler asks for a retry 50 ms later (lines 347-357, 391-401).
Resume(c) ==
  LET d == draining[c]
      list == Replayed(d)
  IN /\ d # NoDrain
     /\ IF d.next = 0 /\ ~rtc[d.link].open
        THEN /\ draining' = [draining EXCEPT ![c] = NoDrain]
             /\ vTimers' = vTimers \cup {Timer(c, "errorRetry", d.key, 50, EmptyMap, "-")}
             /\ vOut' = Step(d.kind \o "Failed", c, d.key, {})
             /\ UNCHANGED <<rtc, connectionStatus, iceCandidatesBuffer>>
        ELSE IF d.next = 0 /\ list = <<>> /\ d.kind = "answer"
        THEN /\ rtc' = [rtc EXCEPT ![d.link].remote = TRUE]
             /\ FinishReplay(c, d)
             /\ UNCHANGED vTimers
        ELSE IF d.next = 0
        THEN /\ rtc' = IF list = <<>> THEN [rtc EXCEPT ![d.link].remote = TRUE]
                       ELSE AddCandidate([rtc EXCEPT ![d.link].remote = TRUE], d.link, list[1])
             /\ draining' = [draining EXCEPT ![c].next = IF list = <<>> THEN 1 ELSE 2]
             /\ vOut' = Step(d.kind \o "Applied", c, d.key, {})
             /\ UNCHANGED <<vTimers, connectionStatus, iceCandidatesBuffer>>
        ELSE IF d.next <= Len(list)
        THEN /\ rtc' = AddCandidate(rtc, d.link, list[d.next])
             /\ draining' = [draining EXCEPT ![c].next = @ + 1]
             /\ vOut' = Step(d.kind \o "Replay", c, d.key, {})
             /\ UNCHANGED <<vTimers, connectionStatus, iceCandidatesBuffer>>
        ELSE /\ FinishReplay(c, d)
             /\ UNCHANGED <<rtc, vTimers>>
     /\ hubQuietVideo
     /\ UNCHANGED <<idText, mounted, peerConnections, pcView, bufView, arrays, statusView,
                    attemptsRef, retryWire, sinceRetry, arrivals>>

\* connectionTimeouts.current.get(key): of the timeouts armed for the key, all of the
\* same length, the one armed last.
LastTimeout(c, key) ==
  {t \in vTimers : /\ t.owner = c /\ t.kind = "connectionTimeout" /\ t.key = key
                   /\ \A o \in vTimers :
                        (o.owner = c /\ o.kind = "connectionTimeout" /\ o.key = key)
                          => o.left <= t.left}

\* handleUserLeft (lines 444-488): the hub announces that user u has left.  The link
\* the handler sees is closed; the handler's three Maps without the key become the
\* state; the timeout the ref holds for the key is cleared.
UserLeft(c, u) ==
  /\ mounted[c] = "ready"
  /\ u # SocketUser(c)
  /\ LET l == pcView[c][u]
     IN IF l # NoLink
        THEN /\ rtc' = [rtc EXCEPT ![l].open = FALSE]
             /\ peerConnections' = [peerConnections EXCEPT ![c] = [pcView[c] EXCEPT ![u] = NoLink]]
             /\ connectionStatus' = [connectionStatus EXCEPT ![c] = [statusView[c] EXCEPT ![u] = "-"]]
             /\ iceCandidatesBuffer' = [iceCandidatesBuffer EXCEPT ![c] = [bufView[c] EXCEPT ![u] = NoArray]]
             /\ vTimers' = vTimers \ LastTimeout(c, u)
        ELSE UNCHANGED <<rtc, peerConnections, connectionStatus, iceCandidatesBuffer, vTimers>>
  /\ vOut' = Step("userLeft", c, u, {})
  /\ hubQuietVideo
  /\ UNCHANGED <<idText, mounted, pcView, bufView, arrays, statusView, attemptsRef, retryWire,
                 sinceRetry, arrivals, draining>>

\* socket.emit('retryConnection', {targetId: key}) by tab c, and the hub's relay of it
\* (part_005, lines 350-358): io.to(targetId) reaches the socket whose id is targetId,
\* and nobody when targetId is a user id.
RetryConnection(c, key) ==
  /\ retryWire' = IF key \in VClients /\ sockState[key] = "open"
                  THEN retryWire \cup {[to |-> key, sender |-> c]} ELSE retryWire
  /\ sinceRetry' = [sinceRetry EXCEPT ![c][key] = 0]

Connected(status) == status \in {"connected", "completed"}

\* The connectionTimeout of createPeerConnection fires (lines 933-953): it reads the
\* status its closure holds.
ConnectionTimeoutFires(t) ==
  /\ t \in vTimers /\ t.kind = "connectionTimeout" /\ t.left = 0
  /\ vTimers' = vTimers \ {t}
  /\ IF Connected(t.seen)
     THEN /\ vOut' = Step("connectionTimeout", t.owner, t.key, {})
          /\ UNCHANGED <<retryWire, sinceRetry>>
     ELSE /\ vOut' = Step("connectionTimeout", t.owner, t.key, {Sig("retryConnection", t.key, "timeout")})
          /\ RetryConnection(t.owner, t.key)
  /\ hubQuietVideo
  /\ UNCHANGED <<idText, mounted, peerConnections, pcView, rtc, iceCandidatesBuffer, bufView,
                 arrays, connectionStatus, statusView, attemptsRef, arrivals, draining>>

\* The ICE agent takes longer to give up than CONNECTION_TIMEOUT.
Late(l) ==
  \A t \in vTimers :
    ~(t.kind = "connectionTimeout" /\ t.owner = rtc[l].owner /\ t.key = rtc[l].key)

\* pc.oniceconnectionstatechange (lines 806-834): the ICE agent of link l, which does
\* not connect, gives up; iceConnectionState is 'failed' from then on.
IceStateChange(l) ==
  /\ rtc[l].open
  /\ Late(l)
  /\ connectionStatus[rtc[l].owner][rtc[l].key] # "failed"
  /\ connectionStatus' = [connectionStatus EXCEPT ![rtc[l].owner][rtc[l].key] = "failed"]
  /\ vOut' = Step("iceconnectionstatechange", rtc[l].owner, rtc[l].key,
                  {Sig("retryConnection", rtc[l].key, "failed")})
  /\ RetryConnection(rtc[l].owner, rtc[l].key)
  /\ hubQuietVideo
  /\ UNCHANGED <<idText, mounted, peerConnections, pcView, rtc, iceCandidatesBuffer, bufView,
                 arrays, statusView, attemptsRef, vTimers, arrivals, draining>>

\* handleConnectionRetry (lines 520-531): the link the handler sees is closed, the
\* handler's Map without it becomes the state, and createPeerConnection is called
\* 20 ms later.
HandleConnectionRetry(m) ==
  /\ m \in retryWire
  /\ mounted[m.to] = "ready"
  /\ MayArm(m.to)
  /\ retryWire' = retryWire \ {m}
  /\ LET c == m.to
         l == pcView[c][m.sender]
     IN /\ IF l # NoLink
           THEN /\ rtc' = [rtc EXCEPT ![l].open = FALSE]
                /\ peerConnections' = [peerConnections EXCEPT ![c] = [pcView[c] EXCEPT ![m.sender] = NoLink]]
           ELSE UNCHANGED <<rtc, peerConnections>>
        /\ vTimers' = vTimers \cup {Timer(c, "connectionRetry", m.sender, 20, pcView[c],
                                           statusView[c][m.sender])}
        /\ vOut' = Step("connectionRetry", c, m.sender, {})
  /\ hubQuietVideo
  /\ UNCHANGED <<idText, mounted, pcView, iceCandidatesBuffer, bufView, arrays,
                 connectionStatus, statusView, attemptsRef, sinceRetry, arrivals, draining>>

\* Its timer (line 530).
ConnectionRetryTimer(t) ==
  /\ t \in vTimers /\ t.kind = "connectionRetry" /\ t.left = 0
  /\ createPeerConnection(t.owner, t.key, t.view, t.seen, vTimers \ {t})
  /\ vOut' = Step("connectionRetryTimer", t.owner, t.key, CreateEmits(t.owner, t.key, t.view))
  /\ hubQuietVideo
  /\ UNCHANGED <<idText, mounted, pcView, iceCandidatesBuffer, bufView, arrays, statusView,
                 retryWire, sinceRetry, arrivals, draining>>

\* Half a second passes: no timer is due, every timer comes a tick closer.
VideoTick ==
  /\ \A t \in vTimers : t.left > 0
  /\ vTimers # {}
  /\ vTimers' = {[t EXCEPT !.left = @ - 1] : t \in vTimers}
  /\ sinceRetry' = [c \in VClients |-> [k \in VideoIds |->
                      IF sinceRetry[c][k] < MinSpacing THEN sinceRetry[c][k] + 1 ELSE MinSpacing]]
  /\ vOut' = Step("tick", "-", "-", {})
  /\ hubQuietVideo
  /\ UNCHANGED <<idText, mounted, peerConnections, pcView, rtc, iceCandidatesBuffer, bufView,
                 arrays, connectionStatus, statusView, attemptsRef, retryWire, arrivals,
                 draining>>

\* Two tabs whose connections are registered in the room, with any texts of ids, on
\* the copy of the hub that has a signaling relay.
InitVideoSpec ==
  /\ hub = "part_005"
  /\ sockState = [s \in Sockets |-> IF s \in VClients THEN "open" ELSE "new"]
  /\ ioRooms = [s \in Sockets |-> IF s \in VClients THEN {ClientRoom} ELSE {}]
  /\ pc = [s \in Sockets |-> Idle]
  /\ activeUsers = MapSet(<<>>, ClientRoom, <<[id |-> "U1", socketId |-> "s1"],
                                              [id |-> "U2", socketId |-> "s2"]>>)
  /\ participants = [r \in Rooms |-> <<"U1", "U2">>]
  /\ sharedWith = [r \in Rooms |-> {}]
  /\ emitted = {}
  /\ httpResp = NoResp
  /\ conns = {[s |-> "s1", r |-> ClientRoom, u |-> "U1"], [s |-> "s2", r |-> ClientRoom, u |-> "U2"]}
  /\ wsSocket = NoSocket
  /\ InitClient
  /\ InitDoc
  /\ InitChat
  /\ InitVideo
  /\ idText \in IdTexts

outsideVideo == <<clientVars, docVars, chatVars>>

NextGlare ==
  \/ \E c \in VClients : GetMedia(c) /\ UNCHANGED outsideVideo
  \/ \E c \in VClients : Render(c) /\ UNCHANGED outsideVideo
  \/ \E c \in VClients : MediaRetry(c) /\ UNCHANGED outsideVideo
  \/ \E c \in VClients, u \in Users : UserJoined(c, u) /\ UNCHANGED outsideVideo
  \/ \E l \in LinkIds : NegotiationNeeded(l) /\ UNCHANGED outsideVideo

SpecGlare == InitVideoSpec /\ [][NextGlare]_vars

NextRenegotiate ==
  \/ \E c \in VClients : GetMedia(c) /\ UNCHANGED outsideVideo
  \/ \E c \in VClients : Render(c) /\ UNCHANGED outsideVideo
  \/ \E c \in VClients : MediaRetry(c) /\ UNCHANGED outsideVideo
  \/ \E c \in VClients, u \in Users : StreamReady(c, u) /\ UNCHANGED outsideVideo
  \/ \E t \in vTimers : StreamReadyTimer(t) /\ UNCHANGED outsideVideo
  \/ \E c \in VClients, from \in VClients : ReconnectPeers(c, from) /\ UNCHANGED outsideVideo
  \/ \E t \in vTimers : ReconnectTimer(t) /\ UNCHANGED outsideVideo

SpecRenegotiate == InitVideoSpec /\ [][NextRenegotiate]_vars

\* The tab of ClientSocket and what the relay delivers to it from the other tab.
NextIce ==
  \/ GetMedia(ClientSocket) /\ UNCHANGED outsideVideo
  \/ Render(ClientSocket) /\ UNCHANGED outsideVideo
  \/ MediaRetry(ClientSocket) /\ UNCHANGED outsideVideo
  \/ HandleIceCandidate(ClientSocket, OtherClient(ClientSocket)) /\ UNCHANGED outsideVideo
  \/ OfferArrives(ClientSocket, OtherClient(ClientSocket)) /\ UNCHANGED outsideVideo
  \/ AnswerArrives(ClientSocket, OtherClient(ClientSocket)) /\ UNCHANGED outsideVideo
  \/ Resume(ClientSocket) /\ UNCHANGED outsideVideo

InitIce == InitVideoSpec /\ idText = SomeIdText

SpecIce == InitIce /\ [][NextIce]_vars

\* Two tabs that are connected to the hub and not yet in its presence list.
InitRetry ==
  /\ hub = "part_005"
  /\ sockState = [s \in Sockets |-> IF s \in VClients THEN "open" ELSE "new"]
  /\ ioRooms = [s \in Sockets |-> {}]
  /\ pc = [s \in Sockets |-> Idle]
  /\ activeUsers = <<>>
  /\ participants = [r \in Rooms |-> <<"U1", "U2">>]
  /\ sharedWith = [r \in Rooms |-> {}]
  /\ emitted = {}
  /\ httpResp = NoResp
  /\ conns = {}
  /\ wsSocket = NoSocket
  /\ InitClient
  /\ InitDoc
  /\ InitChat
  /\ InitVideo
  /\ idText = SomeIdText

\* The first candidate of the other tab reaches the tab of ClientSocket.
FirstCandidate ==
  /\ arrivals[ClientSocket][OtherClient(ClientSocket)] = <<>>
  /\ HandleIceCandidate(ClientSocket, OtherClient(ClientSocket))

\* Two tabs whose links do not connect: the timeouts, the ICE events and the retries
\* they exchange over the hub.
NextRetry ==
  \/ \E c \in VClients : GetMedia(c) /\ UNCHANGED outsideVideo
  \/ \E c \in VClients : Render(c) /\ UNCHANGED outsideVideo
  \/ \E c \in VClients : MediaRetry(c) /\ UNCHANGED outsideVideo
  \/ FirstCandidate /\ UNCHANGED outsideVideo
  \/ \E t \in vTimers : ConnectionTimeoutFires(t) /\ UNCHANGED outsideVideo
  \/ \E l \in LinkIds : IceStateChange(l) /\ UNCHANGED outsideVideo
  \/ \E m \in retryWire : HandleConnectionRetry(m) /\ UNCHANGED outsideVideo
  \/ \E t \in vTimers : ConnectionRetryTimer(t) /\ UNCHANGED outsideVideo
  \/ VideoTick /\ UNCHANGED outsideVideo

SpecRetry == InitRetry /\ [][NextRetry]_vars

\* Timers fire when they are due, time passes, a delivered connectionRetry is handled
\* and a tab whose state changed renders; when candidates arrive and when the ICE
\* agent gives up is up to the network.
SpecRetryFair ==
  /\ SpecRetry
  /\ WF_vars(\E t \in vTimers : ConnectionTimeoutFires(t) /\ UNCHANGED outsideVideo)
  /\ WF_vars(\E t \in vTimers : ConnectionRetryTimer(t) /\ UNCHANGED outsideVideo)
  /\ WF_vars(\E c \in VClients : MediaRetry(c) /\ UNCHANGED outsideVideo)
  /\ WF_vars(\E m \in retryWire : HandleConnectionRetry(m) /\ UNCHANGED outsideVideo)
  /\ WF_vars(\E c \in VClients : Render(c) /\ UNCHANGED outsideVideo)
  /\ WF_vars(VideoTick /\ UNCHANGED outsideVideo)


----------------------------------------------------------------------------
(* Properties of glare avoidance.                                          *)

\* The tab whose connection identifier is the lexicographically smaller of the two.
Initiator == IF LexLess(idText["s1"], idText["s2"]) THEN "s1" ELSE "s2"

\* Both tabs hold an open link to each other.
LinkedBothWays == \A c \in VClients : \E l \in LinkIds : rtc[l].open /\ rtc[l].owner = c

\* C11: when two tabs have created links to each other, exactly one of them has
\* sent the offer at link creation, the one with the smaller connection identifier,
\* and every negotiation-needed trigger makes that tab, and only that tab, send the
\* offer.
C11_OneSideOffers ==
  [][/\ LinkedBothWays' =>
          \A l \in LinkIds : rtc'[l].open => (rtc'[l].offered <=> rtc'[l].owner = Initiator)
     /\ (LinkedBothWays /\ vOut'.step = "negotiationneeded") =>
          (vOut'.emits # {} <=> vOut'.by = Initiator)]_vars

\* C12: a renegotiation offer sent because a streamReady or a reconnectPeers event
\* arrived for a peer is sent only by the tab with the smaller connection identifier.
C12_RenegotiationBySmaller ==
  [][\A e \in vOut'.emits :
       (e.ev = "offer" /\ e.why \in {"streamReady", "reconnectPeers"}) => vOut'.by = Initiator]_vars

----------------------------------------------------------------------------
(* Properties of the ICE candidate buffer.                                 *)

Increasing(seq) == \A i, j \in 1..Len(seq) : i < j => seq[i] < seq[j]

\* C13: the addIceCandidate calls on a tab's link to a sender are made in arrival
\* order and at most once per candidate, and once the remote description is set and
\* no offer or answer handler is still replaying, they are exactly the candidates
\* received from that sender, as if all had arrived after the remote description.
C13_CandidatesOnceInOrder ==
  \A c \in VClients, k \in VideoIds :
    LET l == peerConnections[c][k]
    IN (l # NoLink /\ rtc[l].open) =>
         /\ Increasing(rtc[l].added)
         /\ (rtc[l].remote /\ draining[c] = NoDrain) => rtc[l].added = Candidates(c, k)

\* C14: when an offer or answer handler has applied the remote description and
\* replayed the buffer, the buffer holds nothing for that remote, and no candidate
\* is added to a link a second time.
C14_BufferClearedAfterReplay ==
  [][/\ vOut'.step \in {"offerDone", "answerDone"} =>
          iceCandidatesBuffer'[vOut'.by][vOut'.key] = NoArray
     /\ \A l \in LinkIds : \A i, j \in 1..Len(rtc'[l].added) :
           i # j => rtc'[l].added[i] # rtc'[l].added[j]]_vars
----------------------------------------------------------------------------
(* Properties of the set of links.                                         *)

\* The open links of tab c whose remote end is participant d, under any key.
OpenLinks(c, d) == {l \in LinkIds : rtc[l].open /\ rtc[l].owner = c /\ Holder(rtc[l].key) = d}

\* C15: a tab has at any time at most one open link per remote participant, under
\* whichever keys and from whichever handlers the links were asked for.
C15_OneLinkPerRemote ==
  \A c \in VClients, d \in VClients : Cardinality(OpenLinks(c, d)) <= 1
----------------------------------------------------------------------------
(* Properties of the retries.                                              *)

\* A step that sends a retryConnection.
Retrying == \E e \in vOut'.emits : e.ev = "retryConnection"

\* C16: the retries toward a peer are bounded: from some point on no tab sends a
\* retryConnection any more, so two tabs do not keep making each other tear down
\* and recreate their links forever.
C16_RetriesBounded == <>[][~Retrying]_vars

\* C17: whichever trigger sends it, a retryConnection of a tab toward a peer comes
\* at least MinSpacing ticks after the tab's previous one toward that peer.
C17_RetriesSpaced ==
  [][\A e \in vOut'.emits :
       e.ev = "retryConnection" => sinceRetry[vOut'.by][e.target] >= MinSpacing]_vars

\* C29: a tab that holds a link to the sender of a connectionRetry closes that link
\* and, when the handler's 20 ms timer has run, holds a fresh open link to the sender,
\* over which the side with the smaller id sends a new offer; the closed link is not
\* kept in use.
C29_RetryReplacesClosedLink ==
  [][\A t \in vTimers :
       (/\ t.kind = "connectionRetry"
        /\ vOut'.step = "connectionRetryTimer"
        /\ vOut'.by = t.owner
        /\ vOut'.key = t.key
        /\ t \notin vTimers'
        /\ t.view[t.key] # NoLink)
         => /\ peerConnections'[t.owner][t.key] # NoLink
            /\ rtc'[peerConnections'[t.owner][t.key]].open
            /\ Offers(t.owner, t.key) =>
                 \E e \in vOut'.emits : e.ev = "offer" /\ e.target = t.key]_vars

\* C30: the connection timeout of a link is cancelled when the link is connected and
\* when it is torn down or replaced: a timeout that emits retryConnection toward a
\* key belongs to a link that is still open, so its tab holds an open link for that
\* key, and that link is not connected.
C30_TimeoutOnlyOfLiveLink ==
  [][\A t \in vTimers :
       (/\ t.kind = "connectionTimeout"
        /\ t \notin vTimers'
        /\ vOut'.step = "connectionTimeout"
        /\ vOut'.by = t.owner
        /\ vOut'.key = t.key
        /\ \E e \in vOut'.emits : e.ev = "retryConnection")
         => /\ \E l \in LinkIds : /\ rtc[l].open
                                  /\ rtc[l].owner = t.owner
                                  /\ rtc[l].key = t.key
            /\ ~Connected(connectionStatus[t.owner][t.key])]_vars

\* The tab of ClientSocket, what the relay delivers to it from the other tab, and the
\* hub's announcement that the other user has left.
NextTeardown ==
  \/ GetMedia(ClientSocket) /\ UNCHANGED outsideVideo
  \/ Render(ClientSocket) /\ UNCHANGED outsideVideo
  \/ MediaRetry(ClientSocket) /\ UNCHANGED outsideVideo
  \/ HandleIceCandidate(ClientSocket, OtherClient(ClientSocket)) /\ UNCHANGED outsideVideo
  \/ OfferArrives(ClientSocket, OtherClient(ClientSocket)) /\ UNCHANGED outsideVideo
  \/ Resume(ClientSocket) /\ UNCHANGED outsideVideo
  \/ (\E u \in Users : UserLeft(ClientSocket, u)) /\ UNCHANGED outsideVideo

SpecTeardown == InitIce /\ [][NextTeardown]_vars

\* C31: tearing down the link to one remote key X (on userLeft or connectionRetry)
\* closes and removes X's link, status and candidate buffer only: the links, statuses
\* and buffers the tab holds for every other key, those created just before the
\* teardown included, are as before, and no link of another key is closed.
C31_TeardownOnlyOfOneKey ==
  [][vOut'.step \in {"userLeft", "connectionRetry"} =>
       /\ \A k \in VideoIds \ {vOut'.key} :
            /\ peerConnections'[vOut'.by][k] = peerConnections[vOut'.by][k]
            /\ connectionStatus'[vOut'.by][k] = connectionStatus[vOut'.by][k]
            /\ iceCandidatesBuffer'[vOut'.by][k] = iceCandidatesBuffer[vOut'.by][k]
       /\ \A l \in LinkIds :
            (rtc[l].open /\ ~(rtc[l].owner = vOut'.by /\ rtc[l].key = vOut'.key))
              => rtc'[l].open]_vars

\* A tab whose presence list names no other user, and a sender the hub still relays
\* for: socket s2 is connected and subscribed to the room, and its presence entry has
\* been replaced by that of another tab of its user, which has since disconnected.
InitEarly ==
  /\ hub = "part_005"
  /\ sockState = [s \in Sockets |-> IF s \in VClients THEN "open" ELSE "closed"]
  /\ ioRooms = [s \in Sockets |-> IF s \in VClients THEN {ClientRoom} ELSE {}]
  /\ pc = [s \in Sockets |-> Idle]
  /\ activeUsers = MapSet(<<>>, ClientRoom, <<[id |-> "U1", socketId |-> "s1"]>>)
  /\ participants = [r \in Rooms |-> <<"U1", "U2">>]
  /\ sharedWith = [r \in Rooms |-> {}]
  /\ emitted = {}
  /\ httpResp = NoResp
  /\ conns = {[s |-> "s1", r |-> ClientRoom, u |-> "U1"]}
  /\ wsSocket = NoSocket
  /\ InitClient
  /\ InitDoc
  /\ InitChat
  /\ InitVideo
  /\ idText = SomeIdText

\* The tab of s1 and what the relay delivers to it from s2.
NextEarly ==
  \/ GetMedia("s1") /\ UNCHANGED outsideVideo
  \/ Render("s1") /\ UNCHANGED outsideVideo
  \/ MediaRetry("s1") /\ UNCHANGED outsideVideo
  \/ HandleIceCandidate("s1", "s2") /\ UNCHANGED outsideVideo
  \/ OfferArrives("s1", "s2") /\ UNCHANGED outsideVideo
  \/ AnswerArrives("s1", "s2") /\ UNCHANGED outsideVideo
  \/ Resume("s1") /\ UNCHANGED outsideVideo

SpecEarly == InitEarly /\ [][NextEarly]_vars

\* C33: a candidate that arrives from a sender to whom the tab has no link yet is
\* appended to the sender's buffer, and it is applied once a link to the sender exists
\* and has its remote description: when an offer or answer handler has set the
\* description and finished its replay, the link has been given that candidate.
C33_EarlyCandidateApplied ==
  [][\A c \in VClients, k \in VideoIds :
       /\ (/\ vOut'.step = "iceCandidate" /\ vOut'.by = c /\ vOut'.key = k
           /\ pcView[c][k] = NoLink)
            => /\ iceCandidatesBuffer'[c][k] # NoArray
               /\ Len(Candidates(c, k)) + 1 \in Range(arrays'[iceCandidatesBuffer'[c][k]])
       /\ (/\ vOut'.step \in {"offerDone", "answerDone"} /\ vOut'.by = c /\ vOut'.key = k
           /\ arrivals[c][k] # <<>>
           /\ Head(arrivals[c][k]) = 1)
            => 1 \in Range(rtc'[draining[c].link].added)]_vars

\* C38: every offer, answer and iceCandidate a tab emits names as target the
\* connection id of the remote participant, so that the relay delivers it to that
\* participant's connection and to no one else.
C38_TargetIsConnectionId ==
  \A sig \in vOut.emits :
    sig.ev \in {"offer", "answer", "iceCandidate"} =>
      /\ sig.target \in Sockets
      /\ RelayTargets(sockState, ioRooms, sig.target) = {Holder(sig.target)}

============================================================================
